---- MODULE Spec2Model ----
(***************************************************************************)
(* Art retrieval: ingestion of artwork records into the text and image     *)
(* collections, and the query entry points that read them.                 *)
(*                                                                         *)
(* Python values are modelled as follows.  A string that the code takes    *)
(* apart (title, artist, composed text) is a sequence of tokens in which   *)
(* " " and "\n" are the whitespace tokens; a dict is a function whose      *)
(* DOMAIN is its key set, so dict.get(k) on a missing key is None; a       *)
(* vector is the sequence <<model, tower, normalisation>> \o input, that   *)
(* is, it is determined by the operation that produced it and its input.   *)
(***************************************************************************)
EXTENDS Integers, Sequences, FiniteSets, TLC

\* ------------------------------------------------------------------ bounds
MaxRecords == 2
MaxRuns == 2
MaxK == 2

\* ------------------------------------------------------- python primitives
WS == {" ", "\n"}

RECURSIVE LStrip(_)
LStrip(s) == IF s # <<>> /\ Head(s) \in WS THEN LStrip(Tail(s)) ELSE s

RECURSIVE RStrip(_)
RStrip(s) ==
    IF s # <<>> /\ s[Len(s)] \in WS THEN RStrip(SubSeq(s, 1, Len(s) - 1)) ELSE s

\* str.strip()
Strip(s) == RStrip(LStrip(s))

\* sep.join(parts)
RECURSIVE Join(_, _)
Join(sep, parts) ==
    IF parts = <<>> THEN <<>>
    ELSE IF Len(parts) = 1 THEN parts[1]
    ELSE parts[1] \o sep \o Join(sep, Tail(parts))

\* [t for t in lst if t]
RECURSIVE Truthy(_)
Truthy(lst) ==
    IF lst = <<>> THEN <<>>
    ELSE IF Head(lst) # "" THEN <<Head(lst)>> \o Truthy(Tail(lst))
    ELSE Truthy(Tail(lst))

Range(s) == {s[i] : i \in 1..Len(s)}

\* str(x) for the identifiers that occur; the key is absent when the record
\* has no "id", and dict.get then yields None
IdStr(artwork) ==
    IF "id" \notin DOMAIN artwork THEN "None"
    ELSE CASE artwork.id = 1 -> "1"
           [] artwork.id = 2 -> "2"
           [] artwork.id = 3 -> "3"
           [] OTHER -> "?"

\* artwork.get(k) or ""   /   artwork.get(k) or []
GetOrEmpty(artwork, k) == IF k \in DOMAIN artwork THEN artwork[k] ELSE <<>>

\* code-point order of the tag strings that occur (sorted() compares them so)
TagOrder == <<"Oil", "Painting", "Portrait", "oil">>

\* sorted(tags)
SortedTags(tags) ==
    LET idx == {i \in 1..Len(TagOrder) : TagOrder[i] \in tags}
        RECURSIVE Asc(_)
        Asc(S) == IF S = {} THEN <<>>
                  ELSE LET m == CHOOSE i \in S : \A j \in S : i <= j
                       IN  <<TagOrder[m]>> \o Asc(S \ {m})
    IN  Asc(idx)

\* ------------------------------------------------------------ text embedder
\* x if x else []  around a one-element list
OptPart(present, part) == IF present THEN <<part>> ELSE <<>>

\* subjects = [t for t in subject_titles if t] or [t for t in classification_titles if t]
Subjects(artwork) ==
    IF Truthy(GetOrEmpty(artwork, "subject_titles")) # <<>>
    THEN Truthy(GetOrEmpty(artwork, "subject_titles"))
    ELSE Truthy(GetOrEmpty(artwork, "classification_titles"))

\* desc_parts: first subject, medium, "by <artist>", "from <date>", "(<place>)"
DescParts(artwork) ==
    OptPart(Subjects(artwork) # <<>>, <<Head(Subjects(artwork))>>)
    \o OptPart(GetOrEmpty(artwork, "medium_display") # <<>>,
               GetOrEmpty(artwork, "medium_display"))
    \o OptPart(GetOrEmpty(artwork, "artist_title") # <<>>,
               <<"by", " ">> \o GetOrEmpty(artwork, "artist_title"))
    \o OptPart(GetOrEmpty(artwork, "date_display") # <<>>,
               <<"from", " ">> \o GetOrEmpty(artwork, "date_display"))
    \o OptPart(GetOrEmpty(artwork, "place_of_origin") # <<>>,
               <<"(">> \o GetOrEmpty(artwork, "place_of_origin") \o <<")">>)

\* the set of the non-empty tags of the four tag lists
Tags(artwork) ==
    (Range(GetOrEmpty(artwork, "subject_titles"))
     \cup Range(GetOrEmpty(artwork, "classification_titles"))
     \cup Range(GetOrEmpty(artwork, "term_titles"))
     \cup Range(GetOrEmpty(artwork, "material_titles"))) \ {""}

\* "Tags: " + ", ".join(sorted(tags))
TagLine(tags) ==
    <<"Tags:", " ">>
    \o Join(<<",", " ">>, [i \in 1..Cardinality(tags) |-> <<SortedTags(tags)[i]>>])

\* bits: title, description line, tag line, each only when non-empty
Bits(artwork) ==
    OptPart(GetOrEmpty(artwork, "title") # <<>>, GetOrEmpty(artwork, "title"))
    \o OptPart(DescParts(artwork) # <<>>, Join(<<" ">>, DescParts(artwork)))
    \o OptPart(Tags(artwork) # {}, TagLine(Tags(artwork)))

\* f"Artwork {artwork.get('id', '')}"
FallbackText(artwork) ==
    <<"Artwork", " ">> \o (IF "id" \in DOMAIN artwork THEN <<IdStr(artwork)>> ELSE <<>>)

\* build_embedding_text without the "Artwork <id>" fallback
build_embedding_text_NoFallback(artwork) == Strip(Join(<<"\n">>, Bits(artwork)))

build_embedding_text(artwork) ==
    IF Strip(Join(<<"\n">>, Bits(artwork))) = <<>>
    THEN FallbackText(artwork)
    ELSE Strip(Join(<<"\n">>, Bits(artwork)))

\* the SigLIP text tower followed by F.normalize; [] for blank input
embed_text(text) ==
    IF Strip(text) = <<>> THEN <<>>
    ELSE <<"siglip", "text_features", "l2">> \o text

\* one call of embed_text: the blank check comes before the model is
\* called, so a model that would raise is not reached for blank text
EmbedTextCall(text, model_raises) ==
    IF embed_text(text) = <<>> THEN [exc |-> FALSE, vec |-> <<>>]
    ELSE IF model_raises THEN [exc |-> TRUE, vec |-> <<>>]
    ELSE [exc |-> FALSE, vec |-> embed_text(text)]

\* returns the triple (artwork_id, embedding, embedding_text)
embed_artwork_text(artwork) ==
    LET embedding_text == build_embedding_text(artwork)
    IN  <<IdStr(artwork), embed_text(embedding_text), embedding_text>>

\* ----------------------------------------------------------- image embedder
\* f"{iiif_base_url}/{image_id}/full/{size}/0/default.jpg"
build_iiif_url(image_id) ==
    <<"https://www.artic.edu/iiif/2", "/", image_id, "/full/", "843,", "/0/default.jpg">>

\* build_image_url without the is_public_domain check
build_image_url_NoFlagCheck(artwork) ==
    IF "image_id" \notin DOMAIN artwork \/ artwork.image_id = "" THEN <<>>
    ELSE build_iiif_url(artwork.image_id)

\* None is <<>>
build_image_url(artwork) ==
    IF "image_id" \notin DOMAIN artwork \/ artwork.image_id = "" THEN <<>>
    ELSE IF ~("is_public_domain" \in DOMAIN artwork /\ artwork.is_public_domain)
         THEN <<>>
    ELSE build_iiif_url(artwork.image_id)

\* what the origin answers to session.get(url): the fetcher's environment.
\* "200" is a 200 response with an image body, "undecodable" a 200 response
\* whose body is no image, "304" a response without a body,
\* "transport_error" an exception of session.get (timeout, connection reset)
FetchOutcomes == {"200", "304", "403", "500", "transport_error", "undecodable"}

\* resp.status_code
StatusCode(outcome) ==
    CASE outcome = "304" -> 304
      [] outcome = "403" -> 403
      [] outcome = "500" -> 500
      [] OTHER -> 200

\* download_iiif_image with raise_for_status outside the try block
download_iiif_image_NoCatch(url, outcome) ==
    IF outcome = "transport_error" THEN [exc |-> FALSE, img |-> <<>>]
    ELSE IF StatusCode(outcome) = 403 THEN [exc |-> FALSE, img |-> <<>>]
    ELSE IF StatusCode(outcome) >= 400 THEN [exc |-> TRUE, img |-> <<>>]
    ELSE IF outcome # "200" THEN [exc |-> FALSE, img |-> <<>>]
    ELSE [exc |-> FALSE, img |-> <<"RGB", url[3]>>]

\* exc: an exception leaves the function; img: the decoded RGB image, None
\* is <<>>.  session.get raising, a 403, raise_for_status raising (status
\* 400 and above) and Image.open or convert raising all end in return None.
download_iiif_image(url, outcome) ==
    IF outcome = "transport_error" THEN [exc |-> FALSE, img |-> <<>>]
    ELSE IF StatusCode(outcome) = 403 THEN [exc |-> FALSE, img |-> <<>>]
    ELSE IF StatusCode(outcome) >= 400 THEN [exc |-> FALSE, img |-> <<>>]
    ELSE IF outcome # "200" THEN [exc |-> FALSE, img |-> <<>>]
    ELSE [exc |-> FALSE, img |-> <<"RGB", url[3]>>]

\* the SigLIP image tower followed by F.normalize
embed_image(img) == <<"siglip", "image_features", "l2">> \o Tail(img)

\* exc: an exception leaves the function; val: the embedding, None is <<>>;
\* fetched: the url handed to download_iiif_image, <<>> when none was
embed_artwork_image(artwork, fetch, model_raises) ==
    LET url == build_image_url(artwork)
        d == download_iiif_image(url, fetch)
    IN  IF url = <<>> THEN [exc |-> FALSE, val |-> <<>>, fetched |-> <<>>]
        ELSE IF d.exc THEN [exc |-> TRUE, val |-> <<>>, fetched |-> url]
        ELSE IF d.img = <<>> THEN [exc |-> FALSE, val |-> <<>>, fetched |-> url]
        ELSE IF model_raises THEN [exc |-> TRUE, val |-> <<>>, fetched |-> url]
        ELSE [exc |-> FALSE, val |-> embed_image(d.img), fetched |-> url]

\* -------------------------------------------------------------- collections
\* A collection is the sequence of its entries in insertion order.
Ids(coll) == {coll[i].id : i \in 1..Len(coll)}

EntryOf(coll, id) == coll[CHOOSE i \in 1..Len(coll) : coll[i].id = id]

\* CollectionAdd with a store that keeps every record it is handed
CollectionAdd_Append(coll, entry, store, dup) ==
    IF store = "raise" THEN [coll |-> coll, raised |-> TRUE]
    ELSE [coll |-> Append(coll, entry), raised |-> FALSE]

\* collection.add(ids=[id], ...): an id that is already present is not
\* replaced; depending on the chromadb release the call raises a duplicate-id
\* error or ignores the record.  store = "raise" is any other store failure.
CollectionAdd(coll, entry, store, dup) ==
    IF store = "raise" THEN [coll |-> coll, raised |-> TRUE]
    ELSE IF entry.id \in Ids(coll)
         THEN [coll |-> coll, raised |-> (dup = "raise")]
    ELSE [coll |-> Append(coll, entry), raised |-> FALSE]

\* ------------------------------------------------------------------ inputs
R1 == [id |-> 1, title |-> <<"Sunflowers">>, artist_title |-> <<"Van Gogh">>]

R2 == [id |-> 2, title |-> <<"Starry", " ", "Night">>,
       artist_title |-> <<"Van Gogh">>, image_id |-> "abc123",
       is_public_domain |-> TRUE, classification_titles |-> <<"Painting", "Oil">>]

R3 == [id |-> 2, image_id |-> "def456", is_public_domain |-> TRUE]

R4 == [id |-> 3, title |-> <<"Night", " ", "Watch">>, image_id |-> "ghi789",
       is_public_domain |-> TRUE]

Pool == {R1, R2, R3}

RECURSIVE SeqsUpTo(_, _)
SeqsUpTo(S, n) ==
    IF n = 0 THEN {<<>>}
    ELSE LET shorter == SeqsUpTo(S, n - 1)
         IN  shorter \cup {Append(s, x) : s \in {t \in shorter : Len(t) = n - 1}, x \in S}

Inputs == SeqsUpTo(Pool, MaxRecords) \ {<<>>}

\* the failures the environment can inject into one iteration; of the
\* fetches that give no image, which all end in the same return None, a
\* refused and an interrupted one are drawn here
Envs ==
    [text_embed : {"ok", "raise"}, text_store : {"ok", "raise"},
     fetch : {"200", "403", "transport_error"}, image_embed : {"ok", "raise"},
     image_store : {"ok", "raise"}, dup : {"ignore", "raise"},
     override : {"none"}]

\* the text loop calls neither the fetcher nor the image model
TextEnvs ==
    {env \in Envs : env.fetch = "200" /\ env.image_embed = "ok" /\ env.image_store = "ok"}

\* the image loop does not call the text model
ImageEnvs == {env \in Envs : env.text_embed = "ok" /\ env.text_store = "ok"}

\* ------------------------------------------------------------ query engine
\* the mode strings a caller may pass
Modes == {"text", "vision", "hybrid", "images", "audio"}

QueryTexts == {<<>>, <<" ">>, <<"Van Gogh">>, <<"Starry", " ", "Night">>}

\* what can fail under a query: loading or running a model, the store's query
QueryEnvs == {"none", "model_raises", "query_raises"}

\* load_text_embedding_model returns the tuple (model, processor, device)
load_text_embedding_model == <<"AutoModel", "AutoProcessor", "device">>

\* text_model.encode(query_text, normalize_embeddings=True): the attribute
\* exists on a single model object, not on a tuple of three
Encode(text_model, query_text) ==
    IF Len(text_model) = 1
    THEN [exc |-> "none", vec |-> <<"sentence_transformer", "encode", "l2">> \o query_text]
    ELSE [exc |-> "AttributeError", vec |-> <<>>]

\* image_model.get_text_features(**processor(text=[query_text])), F.normalize
TextTowerVector(query_text) == <<"siglip", "text_features", "l2">> \o query_text

\* the store's similarity of two vectors: same embedding space, shared input
Similarity(q, v) ==
    (IF SubSeq(q, 1, 3) = SubSeq(v, 1, 3) THEN 1 ELSE 0)
    + Cardinality(Range(SubSeq(q, 4, Len(q))) \cap Range(SubSeq(v, 4, Len(v))))

\* the nearest entry; ties go to the earlier insertion
Best(coll, q) ==
    CHOOSE i \in 1..Len(coll) : \A j \in 1..Len(coll) :
        \/ Similarity(q, coll[i].embedding) > Similarity(q, coll[j].embedding)
        \/ /\ Similarity(q, coll[i].embedding) = Similarity(q, coll[j].embedding)
           /\ i <= j

Remove(coll, i) == SubSeq(coll, 1, i - 1) \o SubSeq(coll, i + 1, Len(coll))

\* collection.query(query_embeddings=[q], n_results=k): at most k entries,
\* nearest first
RECURSIVE Ranked(_, _, _)
Ranked(coll, q, k) ==
    IF k = 0 \/ coll = <<>> THEN <<>>
    ELSE LET best == Best(coll, q)
         IN  <<coll[best]>> \o Ranked(Remove(coll, best), q, k - 1)

\* a query call that ends before any lookup
Failed(outcome) ==
    [outcome |-> outcome, lookups |-> <<>>, ids |-> <<>>, metadatas |-> <<>>]

\* results = collection.query(...), returned to the caller or raised
Looked(name, coll, q, k, env) ==
    [outcome |-> IF env = "query_raises" THEN "StoreError" ELSE "ok",
     lookups |-> <<[coll |-> name, vec |-> q, n |-> k]>>,
     ids |-> IF env = "query_raises" THEN <<>>
             ELSE LET ranked == Ranked(coll, q, k)
                  IN  [i \in 1..Len(ranked) |-> ranked[i].id],
     metadatas |-> IF env = "query_raises" THEN <<>>
                   ELSE LET ranked == Ranked(coll, q, k)
                        IN  [i \in 1..Len(ranked) |-> ranked[i].metadata]]

\* scripts_get_results with the hybrid branch reading the text collection
scripts_get_results_HybridText(tcoll, icoll, query_text, query_image, mode, n_results, env) ==
    CASE mode = "text" ->
            IF env = "model_raises" THEN Failed("EmbeddingError")
            ELSE IF Encode(load_text_embedding_model, query_text).exc # "none"
            THEN Failed(Encode(load_text_embedding_model, query_text).exc)
            ELSE Looked("text", tcoll, Encode(load_text_embedding_model, query_text).vec,
                        n_results, env)
      [] mode = "vision" ->
            IF query_image = <<>> THEN Failed("MissingQueryImage")
            ELSE IF env = "model_raises" THEN Failed("EmbeddingError")
            ELSE Looked("image", icoll, embed_image(query_image), n_results, env)
      [] mode = "hybrid" ->
            IF env = "model_raises" THEN Failed("EmbeddingError")
            ELSE Looked("text", tcoll, TextTowerVector(query_text), n_results, env)
      [] OTHER -> Failed("UnsupportedMode")

\* backend/scripts/get_results.py, get_results; query_image None is <<>>
scripts_get_results(tcoll, icoll, query_text, query_image, mode, n_results, env) ==
    CASE mode = "text" ->
            IF env = "model_raises" THEN Failed("EmbeddingError")
            ELSE IF Encode(load_text_embedding_model, query_text).exc # "none"
            THEN Failed(Encode(load_text_embedding_model, query_text).exc)
            ELSE Looked("text", tcoll, Encode(load_text_embedding_model, query_text).vec,
                        n_results, env)
      [] mode = "vision" ->
            IF query_image = <<>> THEN Failed("MissingQueryImage")
            ELSE IF env = "model_raises" THEN Failed("EmbeddingError")
            ELSE Looked("image", icoll, embed_image(query_image), n_results, env)
      [] mode = "hybrid" ->
            IF env = "model_raises" THEN Failed("EmbeddingError")
            ELSE Looked("image", icoll, TextTowerVector(query_text), n_results, env)
      [] OTHER -> Failed("UnsupportedMode")

\* src/backend/query.py
query_via_text(tcoll, query_text, n_results, env) ==
    IF env = "model_raises" THEN Failed("EmbeddingError")
    ELSE IF Encode(load_text_embedding_model, query_text).exc # "none"
    THEN Failed(Encode(load_text_embedding_model, query_text).exc)
    ELSE Looked("text", tcoll, Encode(load_text_embedding_model, query_text).vec,
                n_results, env)

query_via_images(icoll, query_text, n_results, env) ==
    IF env = "model_raises" THEN Failed("EmbeddingError")
    ELSE Looked("image", icoll, TextTowerVector(query_text), n_results, env)

\* query_get_results with the dispatch falling through to text retrieval
query_get_results_Fallthrough(tcoll, icoll, query_text, mode, n_results, env) ==
    CASE mode = "images" -> query_via_images(icoll, query_text, n_results, env)
      [] OTHER -> query_via_text(tcoll, query_text, n_results, env)

\* src/backend/query.py, get_results
query_get_results(tcoll, icoll, query_text, mode, n_results, env) ==
    CASE mode = "text" -> query_via_text(tcoll, query_text, n_results, env)
      [] mode = "images" -> query_via_images(icoll, query_text, n_results, env)
      [] OTHER -> Failed("UnsupportedMode")

\* BackendMode without the fallback assignment of the vision branch
BackendMode_VisionKept(mode) ==
    CASE mode = "text" -> "text"
      [] mode = "vision" -> "vision"
      [] mode = "hybrid" -> "hybrid"
      [] OTHER -> "text"

\* frontend/main.py, search_backend: the UI mode mapped to the backend mode
BackendMode(mode) ==
    CASE mode = "text" -> "text"
      [] mode = "vision" -> "text"
      [] mode = "hybrid" -> "hybrid"
      [] OTHER -> "text"

\* the empty list that search_backend returns for a blank query
NoResults == [outcome |-> "ok", lookups |-> <<>>, ids |-> <<>>, metadatas |-> <<>>]

\* meta.get(k); None is <<>>
MetaGet(meta, k) == IF k \in DOMAIN meta THEN meta[k] ELSE <<>>

\* DisplayItem handing on what the metadata holds, without the "or" defaults
DisplayItem_NoDefault(art_id, meta) ==
    [id |-> art_id,
     title |-> MetaGet(meta, "title"),
     artist |-> MetaGet(meta, "artist_title"),
     image_id |-> IF "image_id" \in DOMAIN meta THEN meta.image_id ELSE ""]

\* the dict search_backend builds for one hit:
\* title = meta.get("title") or f"Artwork {art_id}",
\* artist = meta.get("artist_title") or meta.get("artist_display") or "Unknown artist",
\* image_id = meta.get("image_id"), where None is ""
DisplayItem(art_id, meta) ==
    [id |-> art_id,
     title |-> IF MetaGet(meta, "title") # <<>> THEN meta.title
               ELSE <<"Artwork", " ", art_id>>,
     artist |-> IF MetaGet(meta, "artist_title") # <<>> THEN meta.artist_title
                ELSE IF MetaGet(meta, "artist_display") # <<>> THEN meta.artist_display
                ELSE <<"Unknown artist">>,
     image_id |-> IF "image_id" \in DOMAIN meta THEN meta.image_id ELSE ""]

\* for art_id, meta in zip(ids, metadatas): artworks.append({...})
FormatResults(ids, metadatas) ==
    [i \in 1..(IF Len(ids) < Len(metadatas) THEN Len(ids) ELSE Len(metadatas)) |->
        DisplayItem(ids[i], metadatas[i])]

\* what search_backend hands to the GUI: the list of display dicts; an
\* exception of get_results passes through and no list is returned
Displayed(res) ==
    [outcome |-> res.outcome, lookups |-> res.lookups, ids |-> res.ids,
     metadatas |-> res.metadatas,
     artworks |-> IF res.outcome = "ok" THEN FormatResults(res.ids, res.metadatas)
                  ELSE <<>>]

\* frontend/main.py, search_backend
main_search_backend(tcoll, icoll, query, mode, n_results, env) ==
    IF Strip(query) = <<>> THEN Displayed(NoResults)
    ELSE Displayed(scripts_get_results(tcoll, icoll, query, <<>>, BackendMode(mode),
                                       n_results, env))

\* src/frontend/utils.py, search_backend
utils_search_backend(tcoll, icoll, query, mode, n_results, env) ==
    IF Strip(query) = <<>> THEN Displayed(NoResults)
    ELSE Displayed(query_get_results(tcoll, icoll, query, mode, n_results, env))

\* --------------------------------------------------------------- the state
VARIABLES
    text_collection,    \* artwork_text_embeddings
    image_collection,   \* artwork_image_embeddings
    pc,                 \* "idle", "running", "done", or "aborted" by an uncaught exception
    loop,               \* which ingestion loop runs: "text", "image", "main"
    artworks,           \* the records the loop iterates over
    pos,                \* how many records the iterator has yielded
    count,              \* the loop's processed counter
    saved,              \* the loop's saved counter
    runs,               \* ingestion runs started so far
    clean,              \* no failure was injected into the current run
    rerun,              \* the run repeats the input of the run before it, which met no failure
    snap,               \* the two collections as a rerun found them
    lastAdded,          \* per collection, the entry the last iteration passed to add (0 or 1)
    lastQuery,          \* the last query call: its arguments and what it did
    lastStep,           \* what the last iteration of an observed run embedded and fetched
    tally,              \* an observed image run: the failures met and the stores that succeeded
    net,                \* a traced run: the network sessions made and what was done on them
    printed,            \* a traced run: progress_every and the progress lines printed
    loader,             \* load_artworks: the files, the reading position, the records yielded
    harness,            \* the evaluation harness: the sample, the queries made, the scores
    gui                 \* the GUI: its event loop, its cards and its image cache

vars == <<text_collection, image_collection, pc, loop, artworks, pos, count,
          saved, runs, clean, rerun, snap, lastAdded, lastQuery, lastStep, tally,
          net, printed, loader, harness, gui>>

\* the state of the tools around the ingestion loops and the query service
Tools == <<net, printed, loader, harness, gui>>

\* the observations, which only the observed run keeps
Observed == <<lastStep, tally>>

NoFailure(env) ==
    /\ env.text_embed = "ok" /\ env.text_store = "ok" /\ env.fetch = "200"
    /\ env.image_embed = "ok" /\ env.image_store = "ok"

\* ------------------------------------------------------------ one iteration
\* Each operator is the body of one loop for one record.  exc: an exception
\* leaves the loop body; added: the entry passed to a collection.add call that
\* met no store failure other than a duplicate id, if any;
\* progress: the iteration reaches the progress report at its end.

\* the text handed to embed_text: build_embedding_text(artwork), unless a
\* test replaces it by an empty or a whitespace-only string
EmbeddingText(artwork, override) ==
    CASE override = "empty" -> <<>>
      [] override = "blank" -> <<" ">>
      [] OTHER -> embed_artwork_text(artwork)[3]

\* TextIteration with the image_id requirement of the combined loop
TextIteration_RequireImage(artwork, coll, env) ==
    LET text == EmbeddingText(artwork, env.override)
        call == EmbedTextCall(text, env.text_embed = "raise")
        entry == [id |-> embed_artwork_text(artwork)[1], document |-> text,
                  embedding |-> call.vec, metadata |-> [type |-> "text"]]
        add == CollectionAdd(coll, entry, env.text_store, env.dup)
    IN  IF call.exc \/ call.vec = <<>> \/ "image_id" \notin DOMAIN artwork
        THEN [exc |-> FALSE, coll |-> coll, saved |-> 0, added |-> <<>>, progress |-> FALSE,
              text |-> text, vec |-> call.vec]
        ELSE [exc |-> FALSE, coll |-> add.coll, saved |-> IF add.raised THEN 0 ELSE 1,
              added |-> IF env.text_store = "ok" THEN <<entry>> ELSE <<>>,
              progress |-> ~add.raised, text |-> text, vec |-> call.vec]

\* TextIteration storing whatever embed_text returned, the empty vector too
TextIteration_StoreEmpty(artwork, coll, env) ==
    LET text == EmbeddingText(artwork, env.override)
        call == EmbedTextCall(text, env.text_embed = "raise")
        entry == [id |-> embed_artwork_text(artwork)[1], document |-> text,
                  embedding |-> call.vec, metadata |-> [type |-> "text"]]
        add == CollectionAdd(coll, entry, env.text_store, env.dup)
    IN  IF call.exc
        THEN [exc |-> FALSE, coll |-> coll, saved |-> 0, added |-> <<>>, progress |-> FALSE,
              text |-> text, vec |-> call.vec]
        ELSE [exc |-> FALSE, coll |-> add.coll, saved |-> IF add.raised THEN 0 ELSE 1,
              added |-> IF env.text_store = "ok" THEN <<entry>> ELSE <<>>,
              progress |-> ~add.raised, text |-> text, vec |-> call.vec]

\* generate_text_embeddings_for_artworks, lines 41-70; text, vec: what was
\* handed to embed_text and what it returned
TextIteration(artwork, coll, env) ==
    LET text == EmbeddingText(artwork, env.override)
        call == EmbedTextCall(text, env.text_embed = "raise")
        entry == [id |-> embed_artwork_text(artwork)[1], document |-> text,
                  embedding |-> call.vec, metadata |-> [type |-> "text"]]
        add == CollectionAdd(coll, entry, env.text_store, env.dup)
    IN  IF call.exc
        THEN [exc |-> FALSE, coll |-> coll, saved |-> 0, added |-> <<>>, progress |-> FALSE,
              text |-> text, vec |-> call.vec]
        ELSE IF call.vec = <<>>
        THEN [exc |-> FALSE, coll |-> coll, saved |-> 0, added |-> <<>>, progress |-> FALSE,
              text |-> text, vec |-> call.vec]
        ELSE IF add.raised
        THEN [exc |-> FALSE, coll |-> add.coll, saved |-> 0,
              added |-> IF env.text_store = "ok" THEN <<entry>> ELSE <<>>,
              progress |-> FALSE, text |-> text, vec |-> call.vec]
        ELSE [exc |-> FALSE, coll |-> add.coll, saved |-> 1, added |-> <<entry>>,
              progress |-> TRUE, text |-> text, vec |-> call.vec]

\* ImageIteration without the try/except around embed_artwork_image
ImageIteration_NoCatch(artwork, coll, env) ==
    LET e == embed_artwork_image(artwork, env.fetch, env.image_embed = "raise")
        entry == [id |-> IdStr(artwork), embedding |-> e.val,
                  metadata |-> [type |-> "image"]]
        add == CollectionAdd(coll, entry, env.image_store, env.dup)
    IN  IF e.exc \/ e.val = <<>>
        THEN [exc |-> e.exc, coll |-> coll, saved |-> 0, added |-> <<>>, progress |-> FALSE,
              fetched |-> e.fetched]
        ELSE [exc |-> FALSE, coll |-> add.coll, saved |-> IF add.raised THEN 0 ELSE 1,
              added |-> IF env.image_store = "ok" THEN <<entry>> ELSE <<>>,
              progress |-> ~add.raised, fetched |-> e.fetched]

\* ImageIteration with saved += 1 ahead of the collection.add call
ImageIteration_CountFirst(artwork, coll, env) ==
    LET e == embed_artwork_image(artwork, env.fetch, env.image_embed = "raise")
        entry == [id |-> IdStr(artwork), embedding |-> e.val,
                  metadata |-> [type |-> "image"]]
        add == CollectionAdd(coll, entry, env.image_store, env.dup)
    IN  IF e.exc \/ e.val = <<>>
        THEN [exc |-> FALSE, coll |-> coll, saved |-> 0, added |-> <<>>, progress |-> FALSE,
              fetched |-> e.fetched]
        ELSE [exc |-> FALSE, coll |-> add.coll, saved |-> 1,
              added |-> IF env.image_store = "ok" THEN <<entry>> ELSE <<>>,
              progress |-> ~add.raised, fetched |-> e.fetched]

\* generate_image_embeddings_for_artworks, lines 114-147; fetched: the url
\* the iteration fetched, <<>> when it fetched none
ImageIteration(artwork, coll, env) ==
    LET e == embed_artwork_image(artwork, env.fetch, env.image_embed = "raise")
        entry == [id |-> IdStr(artwork), embedding |-> e.val,
                  metadata |-> [type |-> "image"]]
        add == CollectionAdd(coll, entry, env.image_store, env.dup)
    IN  IF e.exc
        THEN [exc |-> FALSE, coll |-> coll, saved |-> 0, added |-> <<>>, progress |-> FALSE,
              fetched |-> e.fetched]
        ELSE IF e.val = <<>>
        THEN [exc |-> FALSE, coll |-> coll, saved |-> 0, added |-> <<>>, progress |-> FALSE,
              fetched |-> e.fetched]
        ELSE IF add.raised
        THEN [exc |-> FALSE, coll |-> add.coll, saved |-> 0,
              added |-> IF env.image_store = "ok" THEN <<entry>> ELSE <<>>,
              progress |-> FALSE, fetched |-> e.fetched]
        ELSE [exc |-> FALSE, coll |-> add.coll, saved |-> 1, added |-> <<entry>>,
              progress |-> TRUE, fetched |-> e.fetched]

\* title = artwork.get("title") or "Unknown title", and so on
SanitizedMeta(artwork) ==
    [image_id |-> artwork.image_id,
     title |-> IF GetOrEmpty(artwork, "title") # <<>> THEN artwork.title
               ELSE <<"Unknown title">>,
     artist_title |-> IF GetOrEmpty(artwork, "artist_title") # <<>>
                      THEN artwork.artist_title ELSE <<"Unknown artist">>]

\* embedding_text_vec, embedding_text = embed_artwork_text(text_model, artwork):
\* unpacking into two names raises ValueError unless the tuple has two items;
\* the except clause then sets embedding_text_vec = None (<<>>)
MainTextHalf(artwork, env) ==
    LET r == embed_artwork_text(artwork)
    IN  IF env.text_embed = "raise" \/ Len(r) # 2
        THEN [vec |-> <<>>, text |-> <<>>]
        ELSE [vec |-> r[1], text |-> r[2]]

\* MainIteration leaving the iteration when the text half produced nothing
MainIteration_TextFirst(artwork, tcoll, icoll, env) ==
    LET meta == SanitizedMeta(artwork)
        t == MainTextHalf(artwork, env)
        e == embed_artwork_image(artwork, env.fetch, env.image_embed = "raise")
        ivec == IF e.exc THEN <<>> ELSE e.val
        ientry == [id |-> IdStr(artwork), embedding |-> ivec, metadata |-> meta]
        iadd == IF ivec # <<>> /\ t.vec # <<>>
                THEN CollectionAdd(icoll, ientry, env.image_store, env.dup)
                ELSE [coll |-> icoll, raised |-> FALSE]
    IN  IF "image_id" \notin DOMAIN artwork
        THEN [exc |-> FALSE, tcoll |-> tcoll, icoll |-> icoll,
              tadded |-> <<>>, iadded |-> <<>>, fetched |-> <<>>]
        ELSE [exc |-> FALSE, tcoll |-> tcoll, icoll |-> iadd.coll,
              tadded |-> <<>>,
              iadded |-> IF ivec # <<>> /\ t.vec # <<>> /\ env.image_store = "ok"
                         THEN <<ientry>> ELSE <<>>,
              fetched |-> e.fetched]

\* build_embeddings.main, lines 81-141
MainIteration(artwork, tcoll, icoll, env) ==
    LET meta == SanitizedMeta(artwork)
        t == MainTextHalf(artwork, env)
        tentry == [id |-> IdStr(artwork), document |-> t.text, embedding |-> t.vec,
                   metadata |-> meta]
        tadd == IF t.vec # <<>>
                THEN CollectionAdd(tcoll, tentry, env.text_store, env.dup)
                ELSE [coll |-> tcoll, raised |-> FALSE]
        e == embed_artwork_image(artwork, env.fetch, env.image_embed = "raise")
        ivec == IF e.exc THEN <<>> ELSE e.val
        ientry == [id |-> IdStr(artwork), embedding |-> ivec, metadata |-> meta]
        iadd == IF ivec # <<>>
                THEN CollectionAdd(icoll, ientry, env.image_store, env.dup)
                ELSE [coll |-> icoll, raised |-> FALSE]
    IN  IF "image_id" \notin DOMAIN artwork
        THEN [exc |-> FALSE, tcoll |-> tcoll, icoll |-> icoll,
              tadded |-> <<>>, iadded |-> <<>>, fetched |-> <<>>]
        ELSE [exc |-> FALSE, tcoll |-> tadd.coll, icoll |-> iadd.coll,
              tadded |-> IF t.vec # <<>> /\ env.text_store = "ok"
                         THEN <<tentry>> ELSE <<>>,
              iadded |-> IF ivec # <<>> /\ env.image_store = "ok"
                         THEN <<ientry>> ELSE <<>>,
              fetched |-> e.fetched]

\* ------------------------------------------------------------------ actions
NothingAdded == [text |-> <<>>, image |-> <<>>]

\* the models get_results of backend/scripts/get_results.py loads in a call:
\* load_text_embedding_model or load_image_embedding_model inside the branch
scripts_loads(query_image, mode) ==
    CASE mode = "text" -> <<"text">>
      [] mode = "vision" -> IF query_image = <<>> THEN <<>> ELSE <<"image">>
      [] mode = "hybrid" -> <<"image">>
      [] OTHER -> <<>>

\* the models query_via_text and query_via_images load in a call
query_loads(mode) ==
    CASE mode = "text" -> <<"text">>
      [] mode = "images" -> <<"image">>
      [] OTHER -> <<>>

\* the models that one call of a query entry point loads
ModelLoads(entry, query_text, query_image, mode) ==
    CASE entry = "scripts_get_results" -> scripts_loads(query_image, mode)
      [] entry = "query_get_results" -> query_loads(mode)
      [] entry = "main_search_backend" ->
            IF Strip(query_text) = <<>> THEN <<>>
            ELSE scripts_loads(query_image, BackendMode(mode))
      [] entry = "utils_search_backend" ->
            IF Strip(query_text) = <<>> THEN <<>> ELSE query_loads(mode)
      [] OTHER -> <<>>

\* the record of one call of a query entry point
Call(entry, query_text, query_image, mode, n_results, env, res) ==
    [entry |-> entry, query_text |-> query_text, query_image |-> query_image,
     mode |-> mode, n_results |-> n_results, env |-> env,
     outcome |-> res.outcome, lookups |-> res.lookups, ids |-> res.ids,
     metadatas |-> res.metadatas,
     artworks |-> IF "artworks" \in DOMAIN res THEN res.artworks ELSE <<>>,
     loads |-> ModelLoads(entry, query_text, query_image, mode)]

NoQuery == Call("none", <<>>, <<>>, "none", 0, "none", NoResults)

\* no iteration observed yet
NoStep ==
    [loop |-> "none", text |-> <<>>, vec |-> <<>>, url |-> <<>>, outcome |-> "none",
     raised |-> FALSE, img |-> <<>>]

NoTally == [fetch_failed |-> 0, other_failed |-> FALSE, stored |-> 0]

\* no loop entered yet: no session made, none chosen
NoNet == [entered |-> FALSE, session |-> 0, local |-> FALSE, fetches |-> 0, sessions |-> <<>>]

\* nothing printed yet
NoPrinted == [every |-> 0, lines |-> <<>>]

\* load_artworks not called yet
NoLoader == [at |-> "idle", files |-> <<>>, file |-> 0, line |-> 0, yielded |-> <<>>,
             logged |-> <<>>]

\* no evaluation started
NoHarness == [at |-> "idle", protocol |-> "none", max_k |-> 0, sample |-> <<>>,
              items |-> <<>>, done |-> 0,
              positions |-> <<>>, hits |-> <<>>, same |-> 0, error_count |-> 0,
              result |-> <<>>]

\* no GUI started
NoGui == [at |-> "off", app |-> "none", cache |-> {}, downloads |-> <<>>,
          last |-> [op |-> "none", id |-> "", returned |-> <<>>], cards |-> <<>>]

ToolsIdle ==
    /\ net = NoNet
    /\ printed = NoPrinted
    /\ loader = NoLoader
    /\ harness = NoHarness
    /\ gui = NoGui

Init ==
    /\ text_collection = <<>>
    /\ image_collection = <<>>
    /\ pc = "idle"
    /\ loop = "none"
    /\ artworks = <<>>
    /\ pos = 0
    /\ count = 0
    /\ saved = 0
    /\ runs = 0
    /\ clean = TRUE
    /\ rerun = FALSE
    /\ snap = <<>>
    /\ lastAdded = NothingAdded
    /\ lastQuery = NoQuery
    /\ lastStep = NoStep
    /\ tally = NoTally
    /\ ToolsIdle

\* a script is started on a source of records
StartRun(which, input) ==
    /\ pc \in {"idle", "done"}
    /\ runs < MaxRuns
    /\ pc' = "running"
    /\ loop' = which
    /\ artworks' = input
    /\ pos' = 0
    /\ count' = 0
    /\ saved' = 0
    /\ runs' = runs + 1
    /\ clean' = TRUE
    /\ rerun' = (pc = "done" /\ which = loop /\ input = artworks /\ clean)
    /\ snap' = IF rerun' THEN <<text_collection, image_collection>> ELSE <<>>
    /\ lastAdded' = NothingAdded
    /\ UNCHANGED <<text_collection, image_collection, lastQuery, lastStep, tally>>
    /\ UNCHANGED Tools

\* one iteration of the text loop, the observations left open
TextLoopBody(env) ==
    /\ pc = "running" /\ loop = "text" /\ pos < Len(artworks)
    /\ LET it == TextIteration(artworks[pos + 1], text_collection, env)
       IN  /\ text_collection' = it.coll
           /\ saved' = saved + it.saved
           /\ pc' = IF it.exc THEN "aborted" ELSE pc
           /\ lastAdded' = [text |-> it.added, image |-> <<>>]
    /\ pos' = pos + 1
    /\ count' = count + 1
    /\ clean' = (clean /\ NoFailure(env))
    /\ UNCHANGED <<image_collection, loop, artworks, runs, rerun, snap, lastQuery>>

TextLoopStep(env) == TextLoopBody(env) /\ UNCHANGED Observed /\ UNCHANGED Tools

\* one iteration of the image loop, the observations left open
ImageLoopBody(env) ==
    /\ pc = "running" /\ loop = "image" /\ pos < Len(artworks)
    /\ LET it == ImageIteration(artworks[pos + 1], image_collection, env)
       IN  /\ image_collection' = it.coll
           /\ saved' = saved + it.saved
           /\ pc' = IF it.exc THEN "aborted" ELSE pc
           /\ lastAdded' = [text |-> <<>>, image |-> it.added]
    /\ pos' = pos + 1
    /\ count' = count + 1
    /\ clean' = (clean /\ NoFailure(env))
    /\ UNCHANGED <<text_collection, loop, artworks, runs, rerun, snap, lastQuery>>

ImageLoopStep(env) == ImageLoopBody(env) /\ UNCHANGED Observed /\ UNCHANGED Tools

\* one iteration of the combined loop, the observations left open
MainLoopBody(env) ==
    /\ pc = "running" /\ loop = "main" /\ pos < Len(artworks)
    /\ LET it == MainIteration(artworks[pos + 1], text_collection, image_collection, env)
       IN  /\ text_collection' = it.tcoll
           /\ image_collection' = it.icoll
           /\ pc' = IF it.exc THEN "aborted" ELSE pc
           /\ lastAdded' = [text |-> it.tadded, image |-> it.iadded]
    /\ pos' = pos + 1
    /\ clean' = (clean /\ NoFailure(env))
    /\ UNCHANGED <<loop, artworks, count, saved, runs, rerun, snap, lastQuery>>

MainLoopStep(env) == MainLoopBody(env) /\ UNCHANGED Observed /\ UNCHANGED Tools

\* the iterator is exhausted: the loop ends and the completion line is printed
FinishRun ==
    /\ pc = "running" /\ pos = Len(artworks)
    /\ pc' = "done"
    /\ UNCHANGED <<text_collection, image_collection, loop, artworks, pos, count,
                   saved, runs, clean, rerun, snap, lastAdded, lastQuery, lastStep, tally>>
    /\ UNCHANGED Tools

Next ==
    \/ \E which \in {"text", "image", "main"}, input \in Inputs : StartRun(which, input)
    \/ \E env \in TextEnvs : TextLoopStep(env)
    \/ \E env \in ImageEnvs : ImageLoopStep(env)
    \/ \E env \in Envs : MainLoopStep(env)
    \/ FinishRun

Spec == Init /\ [][Next]_vars

\* ------------------------------------------------------- the observed run
\* One run of an ingestion script over a wider range of records, with what
\* each iteration embedded and fetched kept for inspection.

\* image reference, flag false
R5 == [id |-> 1, title |-> <<"Nighthawks">>, image_id |-> "jkl012",
       is_public_domain |-> FALSE]

\* no "id" key
R6 == [title |-> <<"Untitled">>, image_id |-> "mno345", is_public_domain |-> TRUE]

\* whitespace-only title, image reference, no flag
R7 == [id |-> 3, title |-> <<" ">>, image_id |-> "ghi789"]

RunPool == {R1, R2, R5, R6, R7}

RunInputs == SeqsUpTo(RunPool, MaxRecords) \ {<<>>}

\* the environment of an observed iteration: the failures of Envs, and a
\* test's replacement of the composed text
RunEnvs ==
    [text_embed : {"ok", "raise"}, text_store : {"ok", "raise"},
     fetch : FetchOutcomes, image_embed : {"ok", "raise"},
     image_store : {"ok", "raise"}, dup : {"ignore", "raise"},
     override : {"none", "empty", "blank"}]

RunTextEnvs ==
    {env \in RunEnvs : env.fetch = "200" /\ env.image_embed = "ok" /\ env.image_store = "ok"}

RunImageEnvs ==
    {env \in RunEnvs : env.text_embed = "ok" /\ env.text_store = "ok" /\ env.override = "none"}

RunMainEnvs == {env \in RunEnvs : env.override = "none"}

\* what download_iiif_image did for the url an iteration fetched
FetchStep(which, url, outcome) ==
    [loop |-> which, text |-> <<>>, vec |-> <<>>, url |-> url,
     outcome |-> IF url = <<>> THEN "none" ELSE outcome,
     raised |-> IF url = <<>> THEN FALSE ELSE download_iiif_image(url, outcome).exc,
     img |-> IF url = <<>> THEN <<>> ELSE download_iiif_image(url, outcome).img]

\* the image run's count of what the environment did to it: fetches that
\* gave no image, other failures, and records whose embedding and store
\* call both succeeded
Tallied(t, artwork, coll, url, env) ==
    IF url = <<>> THEN t
    ELSE IF env.fetch # "200" THEN [t EXCEPT !.fetch_failed = @ + 1]
    ELSE IF \/ env.image_embed = "raise" \/ env.image_store = "raise"
            \/ (env.dup = "raise" /\ IdStr(artwork) \in Ids(coll))
         THEN [t EXCEPT !.other_failed = TRUE]
    ELSE [t EXCEPT !.stored = @ + 1]

StartObservedRun(which, input) ==
    /\ runs = 0
    /\ StartRun(which, input)

TextLoopObserved(env) ==
    /\ TextLoopBody(env)
    /\ lastStep' = [NoStep EXCEPT
                       !.loop = "text",
                       !.text = TextIteration(artworks[pos + 1], text_collection, env).text,
                       !.vec = TextIteration(artworks[pos + 1], text_collection, env).vec]
    /\ UNCHANGED tally
    /\ UNCHANGED Tools

ImageLoopObserved(env) ==
    /\ ImageLoopBody(env)
    /\ lastStep' = FetchStep("image",
                             ImageIteration(artworks[pos + 1], image_collection, env).fetched,
                             env.fetch)
    /\ tally' = Tallied(tally, artworks[pos + 1], image_collection,
                        ImageIteration(artworks[pos + 1], image_collection, env).fetched,
                        env)
    /\ UNCHANGED Tools

MainLoopObserved(env) ==
    /\ MainLoopBody(env)
    /\ lastStep' = FetchStep("main",
                             MainIteration(artworks[pos + 1], text_collection,
                                           image_collection, env).fetched,
                             env.fetch)
    /\ UNCHANGED tally
    /\ UNCHANGED Tools

NextR ==
    \/ \E which \in {"text", "image", "main"}, input \in RunInputs :
          StartObservedRun(which, input)
    \/ \E env \in RunTextEnvs : TextLoopObserved(env)
    \/ \E env \in RunImageEnvs : ImageLoopObserved(env)
    \/ \E env \in RunMainEnvs : MainLoopObserved(env)
    \/ FinishRun

RunSpec == Init /\ [][NextR]_vars

\* ------------------------------------------------------- the query service
CleanEnv ==
    [text_embed |-> "ok", text_store |-> "ok", fetch |-> "200",
     image_embed |-> "ok", image_store |-> "ok", dup |-> "ignore",
     override |-> "none"]

\* the text collection after the text loop has ingested input without failure
RECURSIVE IngestText(_, _)
IngestText(coll, input) ==
    IF input = <<>> THEN coll
    ELSE IngestText(TextIteration(Head(input), coll, CleanEnv).coll, Tail(input))

\* the image collection after the image loop has ingested input
RECURSIVE IngestImage(_, _)
IngestImage(coll, input) ==
    IF input = <<>> THEN coll
    ELSE IngestImage(ImageIteration(Head(input), coll, CleanEnv).coll, Tail(input))

\* the image collection after the combined loop has ingested input
RECURSIVE IngestMain(_, _)
IngestMain(coll, input) ==
    IF input = <<>> THEN coll
    ELSE IngestMain(MainIteration(Head(input), <<>>, coll, CleanEnv).icoll, Tail(input))

\* contents the ingestion scripts leave behind for the query service
TextContents == {IngestText(<<>>, input) : input \in {<<>>, <<R2>>, <<R1, R2>>, <<R3, R1>>}}

ImageContents ==
    {<<>>, IngestImage(<<>>, <<R2>>), IngestImage(<<>>, <<R3>>), IngestMain(<<>>, <<R2>>),
     IngestMain(IngestImage(<<>>, <<R3>>), <<R4>>)}

QueryImages == {<<>>, <<"RGB", "abc123">>}

\* the query service starts on collections that ingestion has filled
InitQ ==
    /\ text_collection \in TextContents
    /\ image_collection \in ImageContents
    /\ pc = "idle"
    /\ loop = "none"
    /\ artworks = <<>>
    /\ pos = 0
    /\ count = 0
    /\ saved = 0
    /\ runs = 0
    /\ clean = TRUE
    /\ rerun = FALSE
    /\ snap = <<>>
    /\ lastAdded = NothingAdded
    /\ lastQuery = NoQuery
    /\ lastStep = NoStep
    /\ tally = NoTally
    /\ ToolsIdle

Ingestion == <<text_collection, image_collection, pc, loop, artworks, pos, count,
               saved, runs, clean, rerun, snap, lastAdded, lastStep, tally>>

\* a caller invokes get_results of backend/scripts/get_results.py
ScriptsGetResults(query_text, query_image, mode, n_results, env) ==
    /\ pc \in {"idle", "done"}
    /\ lastQuery' = Call("scripts_get_results", query_text, query_image, mode, n_results, env,
                         scripts_get_results(text_collection, image_collection, query_text,
                                             query_image, mode, n_results, env))
    /\ UNCHANGED <<Ingestion, Tools>>

\* a caller invokes get_results of src/backend/query.py
QueryGetResults(query_text, mode, n_results, env) ==
    /\ pc \in {"idle", "done"}
    /\ lastQuery' = Call("query_get_results", query_text, <<>>, mode, n_results, env,
                         query_get_results(text_collection, image_collection, query_text,
                                           mode, n_results, env))
    /\ UNCHANGED <<Ingestion, Tools>>

\* the GUI of frontend/main.py searches
MainSearchBackend(query, mode, n_results, env) ==
    /\ pc \in {"idle", "done"}
    /\ lastQuery' = Call("main_search_backend", query, <<>>, mode, n_results, env,
                         main_search_backend(text_collection, image_collection, query,
                                             mode, n_results, env))
    /\ UNCHANGED <<Ingestion, Tools>>

\* the GUI of src/frontend/app.py searches
UtilsSearchBackend(query, mode, n_results, env) ==
    /\ pc \in {"idle", "done"}
    /\ lastQuery' = Call("utils_search_backend", query, <<>>, mode, n_results, env,
                         utils_search_backend(text_collection, image_collection, query,
                                              mode, n_results, env))
    /\ UNCHANGED <<Ingestion, Tools>>

NextQ ==
    \/ \E q \in QueryTexts, img \in QueryImages, mode \in Modes, k \in 1..MaxK,
          env \in QueryEnvs : ScriptsGetResults(q, img, mode, k, env)
    \/ \E q \in QueryTexts, mode \in Modes, k \in 1..MaxK, env \in QueryEnvs :
          QueryGetResults(q, mode, k, env)
    \/ \E q \in QueryTexts, mode \in Modes, k \in 1..MaxK, env \in QueryEnvs :
          MainSearchBackend(q, mode, k, env)
    \/ \E q \in QueryTexts, mode \in Modes, k \in 1..MaxK, env \in QueryEnvs :
          UtilsSearchBackend(q, mode, k, env)

QuerySpec == InitQ /\ [][NextQ]_vars

\* ======================================================= ingestion claims
HasImageRef(artwork) == "image_id" \in DOMAIN artwork

\* C1: whatever embedding, image-fetch and store failures occur, no exception
\* leaves an ingestion loop, the loop consumes its records one by one, and
\* its completion report is reached only after every record was attempted.
C1_FaultIsolation ==
    /\ pc # "aborted"
    /\ pos <= Len(artworks)
    /\ (loop \in {"text", "image"} => count = pos)
    /\ (pc = "done" => pos = Len(artworks))

\* a finished image run whose first record failed and whose second was stored
C1_Witness ==
    /\ pc = "done" /\ loop = "image" /\ artworks = <<R2, R3>>
    /\ ~clean /\ count = 2 /\ saved = 1
    /\ Len(image_collection) = 1
    /\ image_collection[1].embedding = embed_image(<<"RGB", "def456">>)

\* C2: no identifier ever has two entries in a collection, and repeating the
\* input of a run that met no failure leaves both collections as that run
\* left them.
C2_Idempotent ==
    /\ Cardinality(Ids(text_collection)) = Len(text_collection)
    /\ Cardinality(Ids(image_collection)) = Len(image_collection)
    /\ (rerun => <<text_collection, image_collection>> = snap)

\* a finished rerun of the text loop whose last record was handed to add again
C2_Witness ==
    /\ rerun /\ pc = "done" /\ loop = "text" /\ Len(artworks) = 2
    /\ Len(text_collection) = 2 /\ lastAdded.text # <<>>

\* C3: after a record has been handed to add, the entry stored under its
\* identifier is that record's entry (a later write replaces an earlier one).
C3_LaterWriteWins ==
    /\ (lastAdded.text # <<>> /\ lastAdded.text[1].id \in Ids(text_collection)
          => EntryOf(text_collection, lastAdded.text[1].id) = lastAdded.text[1])
    /\ (lastAdded.image # <<>> /\ lastAdded.image[1].id \in Ids(image_collection)
          => EntryOf(image_collection, lastAdded.image[1].id) = lastAdded.image[1])

\* C8 as claimed: after a run of the text loop or of the combined loop that
\* met no failure, every record without an image reference has a text entry
\* and no image entry.
C8_TextOnlyEverywhere ==
    (pc = "done" /\ clean /\ loop \in {"text", "main"}) =>
        \A i \in 1..Len(artworks) :
            ~HasImageRef(artworks[i]) =>
                /\ IdStr(artworks[i]) \in Ids(text_collection)
                /\ IdStr(artworks[i]) \notin Ids(image_collection)

\* C8 as amended: an iteration over a record without an image reference
\* never changes the image collection; in the text loop, when nothing
\* fails, the record has a text entry afterwards; in the combined loop the
\* record is skipped and the text collection is not changed either.
C8_TextOnly ==
    [][(pc = "running" /\ pos' = pos + 1 /\ ~HasImageRef(artworks[pos + 1])) =>
          /\ image_collection' = image_collection
          /\ (loop = "text" /\ clean' =>
                IdStr(artworks[pos + 1]) \in Ids(text_collection'))
          /\ (loop = "main" => text_collection' = text_collection)]_vars

\* a finished text run that stored the record without an image reference
C8_Witness ==
    /\ pc = "done" /\ loop = "text" /\ clean /\ R1 \in Range(artworks)
    /\ "1" \in Ids(text_collection) /\ "1" \notin Ids(image_collection)
    /\ EntryOf(text_collection, "1").document = build_embedding_text(R1)

\* C9: after a run of the combined loop that met no failure, every record
\* with an image reference has a text entry whose source text is its
\* composed embedding text.
C9_MainStoresText ==
    (pc = "done" /\ clean /\ loop = "main") =>
        \A i \in 1..Len(artworks) :
            HasImageRef(artworks[i]) =>
                /\ IdStr(artworks[i]) \in Ids(text_collection)
                /\ \E j \in 1..Len(artworks) :
                      /\ IdStr(artworks[j]) = IdStr(artworks[i])
                      /\ EntryOf(text_collection, IdStr(artworks[i])).document
                            = build_embedding_text(artworks[j])

\* C10: the metadata of every entry of either collection carries an image
\* reference, a title and an artist.
C10_MetadataComplete ==
    \A coll \in {text_collection, image_collection} :
        \A i \in 1..Len(coll) :
            {"image_id", "title", "artist_title"} \subseteq DOMAIN coll[i].metadata

\* =========================================================== query claims
\* the call asked for retrieval in this mode, with usable text and no failure
\* of a model or of the store
Asked(mode) ==
    /\ lastQuery.mode = mode /\ lastQuery.env = "none"
    /\ Strip(lastQuery.query_text) # <<>>

\* the call issued exactly one lookup, to this collection with this vector
LookedUp(name, vec) ==
    /\ Len(lastQuery.lookups) = 1
    /\ lastQuery.lookups[1].coll = name
    /\ lastQuery.lookups[1].vec = vec

GetResultsEntries == {"scripts_get_results", "query_get_results"}

C5_TextQueryConsistent ==
    (lastQuery.entry # "none" /\ Asked("text")) =>
        /\ lastQuery.outcome = "ok"
        /\ LookedUp("text", embed_text(lastQuery.query_text))
        /\ Len(lastQuery.ids) =
              IF Len(text_collection) < lastQuery.n_results
              THEN Len(text_collection) ELSE lastQuery.n_results

Supported(entry) ==
    IF entry = "scripts_get_results" THEN {"text", "vision", "hybrid"}
    ELSE {"text", "images"}

SearchEntries == {"main_search_backend", "utils_search_backend"}

\* the collection that the last call looked up
LookedCollection ==
    IF lastQuery.lookups[1].coll = "text" THEN text_collection ELSE image_collection

\* C11: every item of the list that search_backend returns has a title and
\* an artist that are not null, the title being "Artwork <id>" and the artist
\* "Unknown artist" where the stored metadata has none, and the items are
\* the hits of the collection's lookup in its rank order.
C11_DisplayItems ==
    (lastQuery.entry \in SearchEntries /\ lastQuery.outcome = "ok"
     /\ lastQuery.lookups # <<>>) =>
        /\ Len(lastQuery.artworks) = Len(lastQuery.ids)
        /\ Len(lastQuery.artworks) =
              Len(Ranked(LookedCollection, lastQuery.lookups[1].vec, lastQuery.n_results))
        /\ \A i \in 1..Len(lastQuery.artworks) :
              /\ lastQuery.artworks[i].id =
                    Ranked(LookedCollection, lastQuery.lookups[1].vec,
                           lastQuery.n_results)[i].id
              /\ lastQuery.artworks[i].title # <<>>
              /\ lastQuery.artworks[i].artist # <<>>
              /\ "title" \notin DOMAIN lastQuery.metadatas[i] =>
                    lastQuery.artworks[i].title
                        = <<"Artwork", " ", lastQuery.artworks[i].id>>
              /\ "artist_title" \notin DOMAIN lastQuery.metadatas[i] =>
                    lastQuery.artworks[i].artist = <<"Unknown artist">>

\* a search that returned two hits, the first stored without title and
\* artist, the second with a title and the sanitized artist
C11_Witness ==
    /\ lastQuery.entry = "utils_search_backend" /\ Asked("images")
    /\ lastQuery.n_results = 2
    /\ Len(lastQuery.artworks) = 2
    /\ lastQuery.artworks[1].id = "2"
    /\ lastQuery.artworks[1].title = <<"Artwork", " ", "2">>
    /\ lastQuery.artworks[1].artist = <<"Unknown artist">>
    /\ lastQuery.artworks[2].id = "3"
    /\ lastQuery.artworks[2].title = <<"Night", " ", "Watch">>

\* ==================================================== observed-run claims
\* the record the last iteration processed
Current == artworks[pos]

\* artwork.get("is_public_domain") is true
PublicDomain(artwork) ==
    "is_public_domain" \in DOMAIN artwork /\ artwork.is_public_domain

\* C12: in the image loop the saved counter is the number of records whose
\* embedding and store call both succeeded and never exceeds processed; a
\* finished run over n image-eligible records that met no failure other
\* than failing fetches reports processed = n and saved = n - |F|, F being
\* the records whose fetch failed.
C12_SavedCount ==
    loop = "image" =>
        /\ saved = tally.stored
        /\ saved <= count
        /\ (pc = "done" /\ ~tally.other_failed
            /\ \A i \in 1..Len(artworks) :
                  HasImageRef(artworks[i]) /\ PublicDomain(artworks[i])) =>
              /\ count = Len(artworks)
              /\ saved = Len(artworks) - tally.fetch_failed

\* a finished image run over two eligible records, the first of which could
\* not be fetched
C12_Witness ==
    /\ pc = "done" /\ loop = "image" /\ artworks = <<R6, R2>>
    /\ tally = [fetch_failed |-> 1, other_failed |-> FALSE, stored |-> 1]
    /\ count = 2 /\ saved = 1
    /\ Ids(image_collection) = {"2"}

\* C13: an iteration of a loop that embeds images builds a url and attempts
\* a fetch exactly for a record that carries an image reference and whose
\* public-domain flag is true; for every other record nothing is fetched
\* and nothing is handed to the image collection.
C13_ImageEligible ==
    lastStep.loop \in {"image", "main"} =>
        /\ (lastStep.url # <<>>) <=> (HasImageRef(Current) /\ PublicDomain(Current))
        /\ lastStep.url # <<>> => lastStep.url = build_iiif_url(Current.image_id)
        /\ ~(HasImageRef(Current) /\ PublicDomain(Current)) => lastAdded.image = <<>>

\* an image run that fetched and stored its first record and fetched
\* nothing for its second, whose flag is false
C13_Witness ==
    /\ lastStep.loop = "image" /\ artworks = <<R2, R5>> /\ pos = 2
    /\ lastStep.url = <<>> /\ lastAdded.image = <<>>
    /\ Ids(image_collection) = {"2"}

\* C14 as claimed: after a run of the combined loop that met no failure,
\* every record with an image reference has an image entry, whatever its
\* public-domain flag.
C14_MainIgnoresFlag ==
    (pc = "done" /\ clean /\ loop = "main") =>
        \A i \in 1..Len(artworks) :
            HasImageRef(artworks[i]) => IdStr(artworks[i]) \in Ids(image_collection)

\* C14 as amended: in the combined loop a record is fetched and can be
\* written to the image collection only if it has an image reference and its
\* public-domain flag is true; after a run that met no failure exactly the
\* identifiers of those records have image entries.
C14_MainEligibility ==
    /\ (lastStep.loop = "main" /\ ~(HasImageRef(Current) /\ PublicDomain(Current))) =>
          (lastStep.url = <<>> /\ lastAdded.image = <<>>)
    /\ (pc = "done" /\ clean /\ loop = "main") =>
          Ids(image_collection) =
              {IdStr(artworks[i]) : i \in {j \in 1..Len(artworks) :
                  HasImageRef(artworks[j]) /\ PublicDomain(artworks[j])}}

\* a finished run of the combined loop that met no failure and wrote the
\* flagged record but not the one whose flag is false
C14_Witness ==
    /\ pc = "done" /\ clean /\ loop = "main" /\ artworks = <<R2, R5>>
    /\ Ids(image_collection) = {"2"}
    /\ image_collection[1].embedding = embed_image(<<"RGB", "abc123">>)

\* list[::-1]
RECURSIVE Reverse(_)
Reverse(lst) == IF lst = <<>> THEN <<>> ELSE Append(Reverse(Tail(lst)), Head(lst))

TagLists == {"subject_titles", "classification_titles", "term_titles", "material_titles"}

\* the record with the elements of each tag list in the opposite order
Reordered(artwork) ==
    [k \in DOMAIN artwork |-> IF k \in TagLists THEN Reverse(artwork[k]) ELSE artwork[k]]

\* C15: the text composed for a record is the text composed for the same
\* record with its tag lists reordered.
C15_TagOrderInvariant ==
    (lastStep.loop = "text" /\ lastStep.text = build_embedding_text(Current)) =>
        lastStep.text = build_embedding_text(Reordered(Current))

\* the text composed from title, description line and tag line
Composed(artwork) == Strip(Join(<<"\n">>, Bits(artwork)))

\* C16: the text the text loop composes for a record is never blank, it is
\* "Artwork <id>" whenever title, description line and tag line compose to
\* nothing but whitespace, and embed_text turns it into a non-empty vector,
\* which is handed to the text collection when nothing fails.
C16_NeverBlank ==
    (lastStep.loop = "text" /\ lastStep.text = build_embedding_text(Current)) =>
        /\ Strip(lastStep.text) # <<>>
        /\ Composed(Current) = <<>> => lastStep.text = <<"Artwork", " ", IdStr(Current)>>
        /\ Composed(Current) # <<>> => lastStep.text = Composed(Current)
        /\ embed_text(lastStep.text) # <<>>
        /\ clean => (lastStep.vec = embed_text(lastStep.text) /\ lastAdded.text # <<>>)

\* a text run that composed the fallback text for the record whose only
\* field is a whitespace title, and stored it
C16_Witness ==
    /\ lastStep.loop = "text" /\ artworks = <<R7>> /\ pos = 1 /\ clean
    /\ lastStep.text = <<"Artwork", " ", "3">>
    /\ Len(text_collection) = 1
    /\ text_collection[1].document = <<"Artwork", " ", "3">>
    /\ text_collection[1].embedding # <<>>

\* C17: an iteration of the text loop whose text to embed is blank gets the
\* empty vector from embed_text, also when the model would raise, hands
\* nothing to the text collection, leaves it unchanged and does not count
\* the record as saved.
C17_BlankSkipped ==
    [][(pc = "running" /\ loop = "text" /\ pos' = pos + 1
        /\ Strip(lastStep'.text) = <<>>) =>
          /\ lastStep'.vec = <<>>
          /\ lastAdded'.text = <<>>
          /\ text_collection' = text_collection
          /\ saved' = saved
          /\ count' = count + 1]_vars

\* a text run that stored its first record and skipped the second, whose
\* text had been replaced by a whitespace-only string
C17_Witness ==
    /\ lastStep.loop = "text" /\ artworks = <<R1, R2>> /\ pos = 2
    /\ lastStep.text = <<" ">> /\ lastStep.vec = <<>>
    /\ count = 2 /\ saved = 1 /\ Ids(text_collection) = {"1"}

C19_NoIdNeverStored ==
    /\ "None" \notin Ids(text_collection)
    /\ "None" \notin Ids(image_collection)

\* C20: a model that one query call has loaded is not loaded again by the
\* query call that follows it.
C20_NoReloadPerQuery ==
    [][\A m \in Range(lastQuery.loads) : m \notin Range(lastQuery'.loads)]_vars

\* ========================================================== the traced run
\* One run of a script that loops over records, with the network sessions it
\* makes and uses and the progress lines it prints kept for inspection.
\* A session is a record: by, who made it; warmups, the warm-up requests sent
\* on it; warm_failed, a warm-up raised; fetches, the image requests sent on
\* it; cold, those sent before any warm-up; blocked, the image requests a
\* raising warm-up kept from being sent; closed.

\* requests.Session() followed by headers.update
NewSession(by) ==
    [by |-> by, warmups |-> 0, warm_failed |-> FALSE, fetches |-> 0, cold |-> 0,
     blocked |-> 0, closed |-> FALSE]

\* session.get("https://www.artic.edu/", timeout=20)
WarmUp(s, warm) ==
    [s EXCEPT !.warmups = @ + 1, !.warm_failed = @ \/ warm = "raise"]

\* session.get(url, ...)
Fetched(s) ==
    [s EXCEPT !.fetches = @ + 1, !.cold = IF s.warmups = 0 THEN @ + 1 ELSE @]

\* the warm-up sits in try / except Exception: pass, then return session
create_artic_session(by, warm) == WarmUp(NewSession(by), warm)

Close(sessions, s) == [sessions EXCEPT ![s].closed = TRUE]

\* embed_artwork_image without the finally block: the session is closed
\* only after embed_image has returned
embed_artwork_image_net_NoFinally(sessions, session, artwork, env, warm) ==
    LET url == build_image_url(artwork)
        local_session == session = 0
        made == IF local_session
                THEN Append(sessions, create_artic_session("embed", warm))
                ELSE sessions
        s == IF local_session THEN Len(made) ELSE session
        d == download_iiif_image(url, env.fetch)
        got == [made EXCEPT ![s] = Fetched(@)]
    IN  IF url = <<>> THEN sessions
        ELSE IF d.exc THEN got
        ELSE IF d.img = <<>> THEN IF local_session THEN Close(got, s) ELSE got
        ELSE IF env.image_embed = "raise" THEN got
        ELSE IF local_session THEN Close(got, s) ELSE got

\* embed_artwork_image as the network sees it.  sessions: the sessions made
\* so far; session: the index of the one passed in, 0 for None.  The result
\* is the sessions after the call.
embed_artwork_image_net(sessions, session, artwork, env, warm) ==
    LET url == build_image_url(artwork)
        local_session == session = 0
        made == IF local_session
                THEN Append(sessions, create_artic_session("embed", warm))
                ELSE sessions
        s == IF local_session THEN Len(made) ELSE session
        d == download_iiif_image(url, env.fetch)
        got == [made EXCEPT ![s] = Fetched(@)]
    IN  IF url = <<>> THEN sessions
        ELSE IF d.exc THEN got
        ELSE IF d.img = <<>> THEN IF local_session THEN Close(got, s) ELSE got
        ELSE IF local_session THEN Close(got, s) ELSE got

\* a loop that hands no session to embed_artwork_image
LoopSession_None(n) == 0

\* the session= argument of the loop's embed_artwork_image call
LoopSession(n) == n.session

\* download_image of api_calls.py on the module's SESSION: the warm-up, then
\* the image request, no try around either
download_image(s, warm, outcome) ==
    IF warm = "raise"
    THEN [exc |-> TRUE, saved |-> 0,
          session |-> [WarmUp(s, warm) EXCEPT !.blocked = @ + 1]]
    ELSE IF outcome = "transport_error"
    THEN [exc |-> TRUE, saved |-> 0, session |-> Fetched(WarmUp(s, warm))]
    ELSE IF StatusCode(outcome) >= 400
    THEN [exc |-> FALSE, saved |-> 0, session |-> Fetched(WarmUp(s, warm))]
    ELSE [exc |-> FALSE, saved |-> 1, session |-> Fetched(WarmUp(s, warm))]

\* the print at the end of an iteration of the text or the image loop
Report_Always(p, which, reached, processed, nsaved) ==
    IF p.every # 0 /\ processed % p.every = 0
    THEN [p EXCEPT !.lines = Append(@, [kind |-> "progress", loop |-> which,
                                        processed |-> processed, saved |-> nsaved])]
    ELSE p

\* if progress_every and count % progress_every == 0: print(...), which an
\* iteration reaches only when no continue came before it
Report(p, which, reached, processed, nsaved) ==
    IF reached /\ p.every # 0 /\ processed % p.every = 0
    THEN [p EXCEPT !.lines = Append(@, [kind |-> "progress", loop |-> which,
                                        processed |-> processed, saved |-> nsaved])]
    ELSE p

\* print(f"[...] DONE: processed={count}, saved={saved}")
Done(p, which, processed, nsaved) ==
    IF which \in {"text", "image"}
    THEN [p EXCEPT !.lines = Append(@, [kind |-> "done", loop |-> which,
                                        processed |-> processed, saved |-> nsaved])]
    ELSE p

\* the scripts of a traced run: the two pipeline loops, main of
\* build_embeddings.py, test_fetch_and_save of api_calls.py ("api"), and a
\* caller that hands each record to embed_artwork_image without a session
TracedLoops == {"text", "image", "main", "api", "embed"}

\* the failures injected into a traced iteration
TracedEnvs ==
    {env \in Envs : env.text_store = "ok" /\ env.dup = "ignore" /\ env.fetch # "transport_error"}

\* the image loop and the call without a session, which store failures do
\* not concern
TracedImageEnvs == {env \in TracedEnvs : env \in ImageEnvs /\ env.image_store = "ok"}

\* what the code before the loop leaves behind: the session the loop will
\* use.  given: the caller of the image loop passed a session in.
Entered(which, given, warm) ==
    CASE which = "image" /\ given ->
            [entered |-> TRUE, session |-> 1, local |-> FALSE, fetches |-> 0,
             sessions |-> <<create_artic_session("caller", warm)>>]
      [] which = "image" /\ ~given ->
            [entered |-> TRUE, session |-> 1, local |-> TRUE, fetches |-> 0,
             sessions |-> <<create_artic_session("loop", warm)>>]
      [] which = "main" ->
            [entered |-> TRUE, session |-> 1, local |-> TRUE, fetches |-> 0,
             sessions |-> <<create_artic_session("loop", warm)>>]
      [] which = "api" ->
            [entered |-> TRUE, session |-> 1, local |-> FALSE, fetches |-> 0,
             sessions |-> <<NewSession("import")>>]
      [] OTHER ->
            [entered |-> TRUE, session |-> 0, local |-> FALSE, fetches |-> 0,
             sessions |-> <<>>]

\* the script reaches its loop: the session is set up and the counters are
\* zeroed
EnterLoop(given, progress_every, warm) ==
    /\ pc = "running" /\ ~net.entered
    /\ given => loop = "image"
    /\ progress_every # 0 => loop \in {"text", "image"}
    /\ warm = "raise" => loop \in {"image", "main"}
    /\ net' = Entered(loop, given, warm)
    /\ printed' = [every |-> progress_every, lines |-> <<>>]
    /\ UNCHANGED <<text_collection, image_collection, pc, loop, artworks, pos, count,
                   saved, runs, clean, rerun, snap, lastAdded, lastQuery, lastStep, tally,
                   loader, harness, gui>>

TextLoopTraced(env) ==
    /\ net.entered
    /\ TextLoopBody(env)
    /\ printed' = Report(printed, "text",
                         TextIteration(artworks[pos + 1], text_collection, env).progress,
                         count + 1,
                         saved + TextIteration(artworks[pos + 1], text_collection, env).saved)
    /\ UNCHANGED <<net, lastStep, tally, loader, harness, gui>>

\* the sessions and the fetch count after an iteration that fetched url
Used(n, artwork, url, env, warm) ==
    [n EXCEPT !.sessions = embed_artwork_image_net(@, LoopSession(n), artwork, env, warm),
              !.fetches = IF url = <<>> THEN @ ELSE @ + 1]

ImageLoopTraced(env, warm) ==
    /\ net.entered
    /\ ImageLoopBody(env)
    /\ net' = Used(net, artworks[pos + 1],
                   ImageIteration(artworks[pos + 1], image_collection, env).fetched, env, warm)
    /\ printed' = Report(printed, "image",
                         ImageIteration(artworks[pos + 1], image_collection, env).progress,
                         count + 1,
                         saved + ImageIteration(artworks[pos + 1], image_collection, env).saved)
    /\ UNCHANGED <<lastStep, tally, loader, harness, gui>>

MainLoopTraced(env, warm) ==
    /\ net.entered
    /\ MainLoopBody(env)
    /\ net' = Used(net, artworks[pos + 1],
                   MainIteration(artworks[pos + 1], text_collection, image_collection,
                                 env).fetched, env, warm)
    /\ UNCHANGED <<printed, lastStep, tally, loader, harness, gui>>

\* one iteration of test_fetch_and_save: download_image inside
\* try / except requests.HTTPError: continue
ApiLoopStep(warm, outcome) ==
    /\ net.entered
    /\ pc = "running" /\ loop = "api" /\ pos < Len(artworks)
    /\ LET d == download_image(net.sessions[net.session], warm, outcome)
       IN  /\ net' = [net EXCEPT !.sessions[net.session] = d.session,
                                 !.fetches = IF warm = "raise" THEN @ ELSE @ + 1]
           /\ saved' = saved + d.saved
           /\ pc' = IF d.exc THEN "aborted" ELSE pc
    /\ pos' = pos + 1
    /\ count' = count + 1
    /\ clean' = (clean /\ warm = "ok" /\ outcome = "200")
    /\ UNCHANGED <<text_collection, image_collection, loop, artworks, runs, rerun, snap,
                   lastAdded, lastQuery, lastStep, tally, printed, loader, harness, gui>>

\* a caller hands the next record to embed_artwork_image with session=None
EmbedLoopStep(env, warm) ==
    /\ net.entered
    /\ pc = "running" /\ loop = "embed" /\ pos < Len(artworks)
    /\ LET e == embed_artwork_image(artworks[pos + 1], env.fetch, env.image_embed = "raise")
       IN  /\ net' = [net EXCEPT
                         !.sessions = embed_artwork_image_net(@, 0, artworks[pos + 1], env, warm),
                         !.fetches = IF e.fetched = <<>> THEN @ ELSE @ + 1]
           /\ pc' = IF e.exc THEN "aborted" ELSE pc
    /\ pos' = pos + 1
    /\ count' = count + 1
    /\ clean' = (clean /\ NoFailure(env))
    /\ UNCHANGED <<text_collection, image_collection, loop, artworks, saved, runs, rerun,
                   snap, lastAdded, lastQuery, lastStep, tally, printed, loader, harness, gui>>

\* the loop's own session after the loop was left: the image loop closes it
\* in its finally block on every way out, main after the loop only
Left(n, which, raised) ==
    IF n.local /\ (which = "image" \/ (which = "main" /\ ~raised))
    THEN [n EXCEPT !.sessions = Close(@, n.session)]
    ELSE n

\* the iterator of the records raises: no handler of the loop covers it
IteratorRaises ==
    /\ net.entered
    /\ pc = "running" /\ loop \in {"text", "image", "main"} /\ pos < Len(artworks)
    /\ pc' = "aborted"
    /\ clean' = FALSE
    /\ net' = Left(net, loop, TRUE)
    /\ UNCHANGED <<text_collection, image_collection, loop, artworks, pos, count, saved,
                   runs, rerun, snap, lastAdded, lastQuery, lastStep, tally, printed,
                   loader, harness, gui>>

\* the iterator is exhausted
FinishTraced ==
    /\ net.entered
    /\ pc = "running" /\ pos = Len(artworks)
    /\ pc' = "done"
    /\ net' = Left(net, loop, FALSE)
    /\ printed' = Done(printed, loop, count, saved)
    /\ UNCHANGED <<text_collection, image_collection, loop, artworks, pos, count, saved,
                   runs, clean, rerun, snap, lastAdded, lastQuery, lastStep, tally,
                   loader, harness, gui>>

NextP ==
    \/ \E which \in TracedLoops, input \in Inputs : StartObservedRun(which, input)
    \/ \E given \in BOOLEAN, progress_every \in 0..MaxRecords, warm \in {"ok", "raise"} :
          EnterLoop(given, progress_every, warm)
    \/ \E env \in TracedEnvs \cap TextEnvs : TextLoopTraced(env)
    \/ \E env \in TracedImageEnvs, warm \in {"ok", "raise"} : ImageLoopTraced(env, warm)
    \/ \E env \in TracedEnvs, warm \in {"ok", "raise"} : MainLoopTraced(env, warm)
    \/ \E warm \in {"ok", "raise"}, outcome \in {"200", "403", "transport_error"} :
          ApiLoopStep(warm, outcome)
    \/ \E env \in TracedImageEnvs, warm \in {"ok", "raise"} : EmbedLoopStep(env, warm)
    \/ IteratorRaises
    \/ FinishTraced

PipelineSpec == Init /\ [][NextP]_vars

\* ===================================================== traced-run claims
\* C21: from the entry into the image loop or into main's loop on, the run
\* has exactly one network session, whatever the number of records, and
\* every image request the run has made was sent on that session.
C21_OneSessionPerRun ==
    (net.entered /\ loop \in {"image", "main"}) =>
        /\ Len(net.sessions) = 1
        /\ net.sessions[1].fetches = net.fetches

\* two records fetched by one run of the image loop
C21_Witness ==
    /\ loop = "image" /\ pc = "done" /\ pos = 2
    /\ net.fetches = 2
    /\ Len(net.sessions) = 1 /\ net.sessions[1].fetches = 2

\* C28: every session gets one warm-up request and no more, no image request
\* is sent on a session before its warm-up, and a warm-up that raises keeps
\* no image request from being sent.
C28_OneWarmUp ==
    \A i \in DOMAIN net.sessions :
        /\ net.sessions[i].warmups <= 1
        /\ net.sessions[i].fetches > 0 => net.sessions[i].warmups = 1
        /\ net.sessions[i].cold = 0
        /\ net.sessions[i].blocked = 0

\* C29: with progress_every = n > 0 the text and the image loop have printed
\* a progress line for every multiple of n that the processed counter has
\* reached, whatever became of the record; with progress_every = 0 they
\* print no progress line.
C29_ProgressEveryMultiple ==
    (net.entered /\ loop \in {"text", "image"}) =>
        IF printed.every = 0
        THEN \A i \in DOMAIN printed.lines : printed.lines[i].kind # "progress"
        ELSE \A c \in 1..count :
                c % printed.every = 0 =>
                    \E i \in DOMAIN printed.lines :
                        /\ printed.lines[i].kind = "progress"
                        /\ printed.lines[i].processed = c

\* C30: a session that embed_artwork_image made for itself is closed when
\* the call is over, however it ended; the session the image loop made for
\* itself is closed once the loop is left, by exhaustion or by an exception;
\* a session the caller passed in is never closed; and a call of
\* embed_artwork_image without a session makes one only for a record it
\* fetches.
C30_OwnSessionClosed ==
    /\ \A i \in DOMAIN net.sessions :
          /\ net.sessions[i].by = "embed" => net.sessions[i].closed
          /\ (net.sessions[i].by = "loop" /\ loop = "image" /\ pc \in {"done", "aborted"})
                => net.sessions[i].closed
          /\ net.sessions[i].by = "caller" => ~net.sessions[i].closed
    /\ loop = "embed" => Len(net.sessions) = net.fetches

\* embed_image raised in a call without a session, after an ineligible
\* record: the one session made is closed
C30_Witness ==
    /\ loop = "embed" /\ pc = "aborted" /\ pos = 2
    /\ build_image_url(artworks[1]) = <<>>
    /\ Len(net.sessions) = 1 /\ net.sessions[1].closed

\* ============================================================ load_artworks
\* A source file is either a JSON array ("array": its elements) or a text of
\* lines ("lines").  A line is blank, malformed (no JSON text) or holds one
\* JSON object; an element or a line's object is a record, bare or wrapped
\* in an envelope [data |-> record].  What load_artworks yields is kept with
\* the index of the file it came from.

\* the elements of an array file and the objects on the lines: bare and
\* wrapped records
SourceObjects == {R1, [data |-> R2]}

SourceLines ==
    {[kind |-> "blank"], [kind |-> "malformed"]}
        \cup {[kind |-> "object", obj |-> o] : o \in SourceObjects}

SourceFiles ==
    {[kind |-> "array", elems |-> e] : e \in SeqsUpTo(SourceObjects, MaxRecords)}
        \cup {[kind |-> "lines", lines |-> l] : l \in SeqsUpTo(SourceLines, MaxRecords)}

\* the directories: one file, or one file followed by a file with a
\* malformed line in it
SourceDirs ==
    {<<f>> : f \in SourceFiles}
        \cup {<<f, [kind |-> "lines",
                    lines |-> <<[kind |-> "malformed"],
                                [kind |-> "object", obj |-> R3]>>]>> : f \in SourceFiles}

\* the lines of a file that line.strip() leaves non-empty
NonBlank(file) == SelectSeq(file.lines, LAMBDA l : l.kind # "blank")

\* json.load(f) on the whole file: an array file parses to a list, a text
\* whose only non-blank line holds an object parses to that object, and
\* every other text raises JSONDecodeError
json_load(file) ==
    IF file.kind = "array" THEN [raised |-> FALSE, list |-> TRUE, data |-> file.elems]
    ELSE IF Len(NonBlank(file)) = 1 /\ NonBlank(file)[1].kind = "object"
    THEN [raised |-> FALSE, list |-> FALSE, data |-> NonBlank(file)[1].obj]
    ELSE [raised |-> TRUE, list |-> FALSE, data |-> <<>>]

\* obj.get("data", obj)
GetData(obj) == IF "data" \in DOMAIN obj THEN obj.data ELSE obj

Yield(l, obj) == [l EXCEPT !.yielded = Append(@, [file |-> l.file, obj |-> obj])]

RECURSIVE YieldAll(_, _)
YieldAll(l, objs) ==
    IF objs = <<>> THEN l ELSE YieldAll(Yield(l, Head(objs)), Tail(objs))

\* the body of the line loop without the except clause
read_line_NoCatch(l, line_num, line) ==
    IF line.kind = "blank" THEN [l EXCEPT !.line = line_num]
    ELSE IF line.kind = "malformed" THEN [l EXCEPT !.line = line_num, !.at = "aborted"]
    ELSE Yield([l EXCEPT !.line = line_num], GetData(line.obj))

\* the body of the line loop, lines 43-53: a blank line is passed over, a
\* line that json.loads rejects is reported with its number, the object of
\* any other line is yielded after obj.get("data", obj)
read_line(l, line_num, line) ==
    IF line.kind = "blank" THEN [l EXCEPT !.line = line_num]
    ELSE IF line.kind = "malformed"
    THEN [l EXCEPT !.line = line_num,
                   !.logged = Append(@, [file |-> l.file, line |-> line_num])]
    ELSE Yield([l EXCEPT !.line = line_num], GetData(line.obj))

\* the try block of lines 34-40 for the next file
open_file(l, file) ==
    IF json_load(file).raised THEN [l EXCEPT !.at = "lines", !.line = 0]
    ELSE IF json_load(file).list
    THEN [YieldAll(l, json_load(file).data) EXCEPT !.file = @ + 1]
    ELSE [Yield(l, json_load(file).data) EXCEPT !.file = @ + 1]

\* load_artworks is called on a directory
LoadArtworks(dir) ==
    /\ loader.at = "idle"
    /\ loader' = [NoLoader EXCEPT !.at = "open", !.files = dir, !.file = 1]
    /\ UNCHANGED <<Ingestion, lastQuery, net, printed, harness, gui>>

\* the generator opens the next file and parses it as a whole
OpenFile ==
    /\ loader.at = "open" /\ loader.file <= Len(loader.files)
    /\ loader' = open_file(loader, loader.files[loader.file])
    /\ UNCHANGED <<Ingestion, lastQuery, net, printed, harness, gui>>

\* the generator reads the next line of a file it reads line by line
ReadLine ==
    /\ loader.at = "lines" /\ loader.line < Len(loader.files[loader.file].lines)
    /\ loader' = read_line(loader, loader.line + 1,
                           loader.files[loader.file].lines[loader.line + 1])
    /\ UNCHANGED <<Ingestion, lastQuery, net, printed, harness, gui>>

\* the lines of the file are exhausted
EndOfFile ==
    /\ loader.at = "lines" /\ loader.line = Len(loader.files[loader.file].lines)
    /\ loader' = [loader EXCEPT !.at = "open", !.file = @ + 1, !.line = 0]
    /\ UNCHANGED <<Ingestion, lastQuery, net, printed, harness, gui>>

\* the files of the directory are exhausted
EndOfDirectory ==
    /\ loader.at = "open" /\ loader.file > Len(loader.files)
    /\ loader' = [loader EXCEPT !.at = "done"]
    /\ UNCHANGED <<Ingestion, lastQuery, net, printed, harness, gui>>

NextL ==
    \/ \E dir \in SourceDirs : LoadArtworks(dir)
    \/ OpenFile
    \/ ReadLine
    \/ EndOfFile
    \/ EndOfDirectory

LoaderSpec == Init /\ [][NextL]_vars

\* ---------------------------------------------------------- loader claims
\* what was yielded from file i, in the order of yielding
YieldedFrom(i) == SelectSeq(loader.yielded, LAMBDA y : y.file = i)

\* the objects on the well-formed non-blank lines of a file, in file order
LineObjects(file) == SelectSeq(file.lines, LAMBDA l : l.kind = "object")

C27_EnvelopeUnwrapped ==
    \A n \in DOMAIN loader.yielded : "data" \notin DOMAIN loader.yielded[n].obj

\* =================================================== the evaluation harness
\* A recall or purity value hits / total is the pair <<hits, total>>, and
\* 0.0 is <<0, 1>>; a position None is 0.

\* entries of the text collection as load_artworks_sample returns them: the
\* metadata with the id added
EvalPool ==
    {[id |-> "1", title |-> <<"Sunflowers">>, artist_title |-> <<"Van Gogh">>],
     [id |-> "2", title |-> <<"Starry", " ", "Night">>, artist_title |-> <<"Van Gogh">>],
     [id |-> "3", title |-> <<" ">>, artist_title |-> <<"Unknown">>],
     [id |-> "4", type |-> "text"]}

Samples == SeqsUpTo(EvalPool, MaxRecords)

\* what query_fn does for one item: it raises, or it returns a ranking of
\* distinct entries
QueryOutcomes ==
    {[raised |-> TRUE, hits |-> <<>>]}
        \cup {[raised |-> FALSE, hits |-> r] :
                r \in {s \in SeqsUpTo(EvalPool, MaxK) :
                          \A i, j \in DOMAIN s : s[i] = s[j] => i = j}}

\* the items a protocol evaluates: a non-blank title, or a non-blank artist
\* other than "Unknown"
eval_items(protocol, sample) ==
    IF protocol = "title"
    THEN SelectSeq(sample, LAMBDA a : Strip(GetOrEmpty(a, "title")) # <<>>)
    ELSE SelectSeq(sample, LAMBDA a : /\ Strip(GetOrEmpty(a, "artist_title")) # <<>>
                                      /\ a.artist_title # <<"Unknown">>)

\* ids.index(art_id) + 1 if art_id in ids, else None
Position(hits, art_id) ==
    IF \E i \in DOMAIN hits : hits[i].id = art_id
    THEN CHOOSE i \in DOMAIN hits : hits[i].id = art_id
    ELSE 0

\* positions_to_recall_curve counting the positions equal to k
positions_to_recall_curve_Exact(positions, max_k) ==
    [k \in 1..max_k |->
        IF Len(positions) > 0
        THEN <<Cardinality({i \in DOMAIN positions : positions[i] # 0 /\ positions[i] = k}),
               Len(positions)>>
        ELSE <<0, 1>>]

\* positions_to_recall_curve dividing by len(valid)
positions_to_recall_curve_Valid(positions, max_k) ==
    [k \in 1..max_k |->
        IF Cardinality({i \in DOMAIN positions : positions[i] # 0}) > 0
        THEN <<Cardinality({i \in DOMAIN positions : positions[i] # 0 /\ positions[i] <= k}),
               Cardinality({i \in DOMAIN positions : positions[i] # 0})>>
        ELSE <<0, 1>>]

\* total = len(positions); recalls[k] = hits / total if total > 0 else 0.0
positions_to_recall_curve(positions, max_k) ==
    [k \in 1..max_k |->
        IF Len(positions) > 0
        THEN <<Cardinality({i \in DOMAIN positions : positions[i] # 0 /\ positions[i] <= k}),
               Len(positions)>>
        ELSE <<0, 1>>]

\* the body of the loop of evaluate_title_retrieval for item a
title_item(h, a, res) ==
    IF res.raised
    THEN [h EXCEPT !.done = @ + 1, !.error_count = @ + 1, !.positions = Append(@, 0)]
    ELSE [h EXCEPT !.done = @ + 1, !.positions = Append(@, Position(res.hits, a.id))]

\* (m or {}).get("artist_title") == artist, artist being the stripped name
SameArtist(m, a) == MetaGet(m, "artist_title") = Strip(a.artist_title)

\* the body of the loop of evaluate_artist_retrieval for item a: same_artist
\* over metas[:max_k], and a hit at k when prefix_hit[k]
artist_item(h, a, res) ==
    IF res.raised
    THEN [h EXCEPT !.done = @ + 1, !.error_count = @ + 1]
    ELSE [h EXCEPT
            !.done = @ + 1,
            !.same = @ + Cardinality({i \in DOMAIN res.hits :
                                        i <= h.max_k /\ SameArtist(res.hits[i], a)}),
            !.hits = [k \in 1..h.max_k |->
                        IF \E i \in 1..k : i <= Len(res.hits) /\ SameArtist(res.hits[i], a)
                        THEN h.hits[k] + 1 ELSE h.hits[k]]]

\* what the protocol returns: the curve, the purity and the error count
evaluation_result(h) ==
    IF h.protocol = "title"
    THEN [curve |-> positions_to_recall_curve(h.positions, h.max_k),
          purity |-> <<0, 1>>, error_count |-> h.error_count]
    ELSE [curve |-> [k \in 1..h.max_k |->
                        IF Len(h.items) > 0 THEN <<h.hits[k], Len(h.items)>> ELSE <<0, 1>>],
          purity |-> IF Len(h.items) > 0 THEN <<h.same, h.max_k * Len(h.items)>>
                     ELSE <<0, 1>>,
          error_count |-> h.error_count]

\* a protocol is started on a sample
StartEvaluation(protocol, sample, max_k) ==
    /\ harness.at = "idle"
    /\ harness' = [NoHarness EXCEPT !.at = "running", !.protocol = protocol,
                                    !.max_k = max_k, !.sample = sample,
                                    !.items = eval_items(protocol, sample),
                                    !.hits = [k \in 1..max_k |-> 0]]
    /\ UNCHANGED <<Ingestion, lastQuery, net, printed, loader, gui>>

\* the next item is queried; n_results = max_k bounds the ranking
EvaluateItem(res) ==
    /\ harness.at = "running" /\ harness.done < Len(harness.items)
    /\ Len(res.hits) <= harness.max_k
    /\ harness' = IF harness.protocol = "title"
                  THEN title_item(harness, harness.items[harness.done + 1], res)
                  ELSE artist_item(harness, harness.items[harness.done + 1], res)
    /\ UNCHANGED <<Ingestion, lastQuery, net, printed, loader, gui>>

\* the items are exhausted and the protocol returns
FinishEvaluation ==
    /\ harness.at = "running" /\ harness.done = Len(harness.items)
    /\ harness' = [harness EXCEPT !.at = "done", !.result = evaluation_result(harness)]
    /\ UNCHANGED <<Ingestion, lastQuery, net, printed, loader, gui>>

NextE ==
    \/ \E protocol \in {"title", "artist"}, sample \in Samples, max_k \in 1..MaxK :
          StartEvaluation(protocol, sample, max_k)
    \/ \E res \in QueryOutcomes : EvaluateItem(res)
    \/ FinishEvaluation

EvalSpec == Init /\ [][NextE]_vars

\* --------------------------------------------------------- harness claims
\* a / b <= c / d for positive b and d
Leq(x, y) == x[1] * y[2] <= y[1] * x[2]

\* C23: the recall curve a protocol returns is non-decreasing in k, each of
\* its values lies in [0, 1], and recall@max_k is at least recall@1.
C23_RecallMonotone ==
    harness.at = "done" =>
        /\ \A k \in DOMAIN harness.result.curve :
              /\ harness.result.curve[k][2] > 0
              /\ 0 <= harness.result.curve[k][1]
              /\ harness.result.curve[k][1] <= harness.result.curve[k][2]
              /\ (k + 1) \in DOMAIN harness.result.curve =>
                    Leq(harness.result.curve[k], harness.result.curve[k + 1])
        /\ Leq(harness.result.curve[1], harness.result.curve[harness.max_k])

\* a title run with a target found at rank 1 and one found at rank 2
C23_Witness ==
    /\ harness.at = "done" /\ harness.protocol = "title" /\ harness.max_k = 2
    /\ harness.positions = <<1, 2>>
    /\ harness.result.curve = [k \in 1..2 |-> <<k, 2>>]

\* C24 as stated: the values a protocol returns are divided by the number
\* of items whose query did not raise.
C24_DenominatorExcludesErrors ==
    harness.at = "done" =>
        \A k \in DOMAIN harness.result.curve :
            harness.result.curve[k][1] > 0 =>
                harness.result.curve[k][2] = Len(harness.items) - harness.error_count

\* C24: the values a protocol returns are divided by the number of items it
\* selected for evaluation, the items whose query raised included, whatever
\* the size of the sample; each query that raised is in the error count.
C24_DenominatorIsEvalItems ==
    (harness.at = "done" /\ Len(harness.items) > 0) =>
        /\ \A k \in DOMAIN harness.result.curve :
              harness.result.curve[k][2] = Len(harness.items)
        /\ harness.protocol = "artist" =>
              harness.result.purity[2] = harness.max_k * Len(harness.items)
        /\ harness.result.error_count = harness.error_count

\* one query found its target and one raised
C24_Witness ==
    /\ harness.at = "done" /\ harness.protocol = "title"
    /\ Len(harness.items) = 2 /\ harness.error_count = 1
    /\ harness.result.curve[1] = <<1, 2>>

\* ================================================================== the GUI
\* The search window of src/frontend/app.py ("app", with its ImageManager)
\* and of frontend/main.py ("main", with its image_cache dict, which is
\* read and filled as get_image does).  cache: the entries [id, surface];
\* downloads: the image ids a download was issued for, in order; last: the
\* last operation and what it returned; a surface carries the number of
\* the download it was made from, so that two downloads of one image give
\* two surfaces.

\* get_image downloading whether the image is cached or not
get_image_NoCache(g, image_id, outcome) ==
    IF download_iiif_image(build_iiif_url(image_id), outcome).img = <<>>
    THEN [g EXCEPT !.downloads = Append(@, image_id),
                   !.last = [op |-> "get_image", id |-> image_id, returned |-> <<>>]]
    ELSE [g EXCEPT !.downloads = Append(@, image_id),
                   !.cache = {e \in @ : e.id # image_id}
                                \cup {[id |-> image_id,
                                       surface |-> <<"surface", image_id,
                                                     Len(g.downloads) + 1>>]},
                   !.last = [op |-> "get_image", id |-> image_id,
                             returned |-> <<"surface", image_id, Len(g.downloads) + 1>>]]

\* ImageManager.get_image: the cached surface if there is one; otherwise
\* the download, None (<<>>) if it gave no image, else the new surface,
\* which is put into the cache
get_image(g, image_id, outcome) ==
    IF \E e \in g.cache : e.id = image_id
    THEN [g EXCEPT !.last = [op |-> "get_image", id |-> image_id,
                             returned |-> (CHOOSE e \in g.cache : e.id = image_id).surface]]
    ELSE IF download_iiif_image(build_iiif_url(image_id), outcome).img = <<>>
    THEN [g EXCEPT !.downloads = Append(@, image_id),
                   !.last = [op |-> "get_image", id |-> image_id, returned |-> <<>>]]
    ELSE [g EXCEPT !.downloads = Append(@, image_id),
                   !.cache = @ \cup {[id |-> image_id,
                                      surface |-> <<"surface", image_id,
                                                    Len(g.downloads) + 1>>]},
                   !.last = [op |-> "get_image", id |-> image_id,
                             returned |-> <<"surface", image_id, Len(g.downloads) + 1>>]]

\* the card of one artwork: image_surface = get_image(image_id) if image_id
\* else None
Card(g, art, outcome) ==
    IF art.image_id = "" THEN [g EXCEPT !.cards = Append(@, [id |-> art.id, image_surface |-> <<>>])]
    ELSE [get_image(g, art.image_id, outcome) EXCEPT
            !.cards = Append(@, [id |-> art.id,
                                 image_surface |-> get_image(g, art.image_id,
                                                             outcome).last.returned])]

\* _build_cards_from_artworks after self.cards = []
RECURSIVE build_cards(_, _, _)
build_cards(g, arts, outcome) ==
    IF arts = <<>> THEN g
    ELSE build_cards(Card(g, Head(arts), outcome), Tail(arts), outcome)

\* the Enter key in handle_events: search_backend, whose exception nothing
\* in the event loop catches, then the cards
handle_search(g, res, outcome) ==
    IF res.outcome # "ok"
    THEN [g EXCEPT !.at = "crashed",
                   !.last = [op |-> "search", id |-> "", returned |-> <<>>]]
    ELSE [build_cards([g EXCEPT !.cards = <<>>], res.artworks, outcome) EXCEPT
            !.last = [op |-> "search", id |-> "", returned |-> <<>>]]

\* the window is opened
StartGui(app) ==
    /\ gui.at = "off"
    /\ gui' = [NoGui EXCEPT !.at = "running", !.app = app]
    /\ UNCHANGED <<Ingestion, lastQuery, net, printed, loader, harness>>

\* the user presses Enter; the origin answers this search's downloads with
\* outcome
Search(query, mode, n_results, env, outcome) ==
    /\ gui.at = "running" /\ Len(gui.downloads) < MaxK
    /\ gui' = handle_search(gui,
                            IF gui.app = "app"
                            THEN utils_search_backend(text_collection, image_collection,
                                                      query, mode, n_results, env)
                            ELSE main_search_backend(text_collection, image_collection,
                                                     query, mode, n_results, env),
                            outcome)
    /\ UNCHANGED <<Ingestion, lastQuery, net, printed, loader, harness>>

\* a caller asks the ImageManager for an image
GetImage(image_id, outcome) ==
    /\ gui.at = "running" /\ gui.app = "app"
    /\ (\E e \in gui.cache : e.id = image_id) \/ Len(gui.downloads) < MaxK
    /\ gui' = get_image(gui, image_id, outcome)
    /\ UNCHANGED <<Ingestion, lastQuery, net, printed, loader, harness>>

\* ImageManager.clear_cache
ClearCache ==
    /\ gui.at = "running" /\ gui.app = "app"
    /\ gui' = [gui EXCEPT !.cache = {},
                          !.last = [op |-> "clear_cache", id |-> "", returned |-> <<>>]]
    /\ UNCHANGED <<Ingestion, lastQuery, net, printed, loader, harness>>

\* the window is closed or Escape is pressed
Quit ==
    /\ gui.at = "running"
    /\ gui' = [gui EXCEPT !.at = "quit",
                          !.last = [op |-> "quit", id |-> "", returned |-> <<>>]]
    /\ UNCHANGED <<Ingestion, lastQuery, net, printed, loader, harness>>

NextG ==
    \/ \E app \in {"app", "main"} : StartGui(app)
    \/ \E q \in QueryTexts, mode \in Modes, k \in 1..MaxK, env \in QueryEnvs,
          outcome \in {"200", "403"} : Search(q, mode, k, env, outcome)
    \/ \E image_id \in {"abc123", "def456"}, outcome \in {"200", "403"} :
          GetImage(image_id, outcome)
    \/ ClearCache
    \/ Quit

GuiSpec == InitQ /\ [][NextG]_vars

\* ------------------------------------------------------------- GUI claims
\* C25: a query that raises ends neither the evaluation harness nor the
\* GUI: the harness goes on to its result, the GUI keeps running and shows
\* no cards for that search.
C25_QueryFailureIsNoResults ==
    /\ harness.at \in {"idle", "running", "done"}
    /\ harness.at = "done" => harness.done = Len(harness.items)
    /\ gui.at \in {"off", "running", "quit"}

\* C26: a get_image call for an image that is in the cache returns the
\* cached surface, issues no download and leaves the cache as it is; a call
\* for an image that is not in the cache (never fetched, or dropped by
\* clear_cache) issues one download, and puts the surface it returns into
\* the cache, or returns None and leaves the cache as it is; clear_cache
\* empties the cache.
C26_CacheServes ==
    [][/\ (gui'.at = "running" /\ gui'.last.op = "get_image"
              /\ \E e \in gui.cache : e.id = gui'.last.id) =>
             /\ \E e \in gui.cache :
                   e.id = gui'.last.id /\ e.surface = gui'.last.returned
             /\ gui'.downloads = gui.downloads
             /\ gui'.cache = gui.cache
       /\ (gui'.at = "running" /\ gui'.last.op = "get_image"
              /\ ~\E e \in gui.cache : e.id = gui'.last.id) =>
             /\ gui'.downloads = Append(gui.downloads, gui'.last.id)
             /\ gui'.last.returned = <<>> => gui'.cache = gui.cache
             /\ gui'.last.returned # <<>> =>
                   gui'.cache = gui.cache \cup {[id |-> gui'.last.id,
                                                 surface |-> gui'.last.returned]}
       /\ (gui'.at = "running" /\ gui'.last.op = "clear_cache") => gui'.cache = {}
      ]_vars

\* an image downloaded, served from the cache, dropped by clear_cache,
\* downloaded again and served from the cache again
C26_Witness ==
    /\ gui.at = "running" /\ gui.app = "app"
    /\ gui.downloads = <<"abc123", "abc123">>
    /\ gui.cache = {[id |-> "abc123", surface |-> <<"surface", "abc123", 2>>]}
    /\ gui.last = [op |-> "get_image", id |-> "abc123",
                   returned |-> <<"surface", "abc123", 2>>]

====
